---- MODULE Spec2Model ----
(***************************************************************************)
(* A model of the rbx_types value types: Vector3 axis identification,      *)
(* the Matrix3 basic-rotation-id table and the Faces bit mask with its     *)
(* two wire forms.                                                         *)
(*                                                                         *)
(* f32 values are modelled exactly, as integers counting units of 2^-24    *)
(* (the spacing of f32 in [0.5, 1)), so 1.0 is 2^24 and f32::EPSILON       *)
(* (2^-23) is 2.  NaN and the infinities are sentinels outside the range   *)
(* of the finite samples.  Every sample used below is an exact f32 value   *)
(* and every subtraction performed on them is exact in f32.                *)
(***************************************************************************)
EXTENDS Integers, Sequences, FiniteSets, TLC

VARIABLES
    call,   \* the last operation applied: its name, arguments and result
    faces   \* the backing byte of the Faces value held by the host

vars == <<call, faces>>

(***************************************************************************)
(* Option<T>: None is the empty tuple, Some(v) the one-element tuple.      *)
(***************************************************************************)
None == <<>>
Some(v) == <<v>>
IsSome(o) == Len(o) = 1
Unwrap(o) == o[1]

(***************************************************************************)
(* f32                                                                     *)
(***************************************************************************)
One == 2^24
EPSILON == One \div 2^23
Half == One \div 2
Inf == 2^30
NaN == 2^30 + 1

IsNaN(a) == a = NaN

\* f32::abs
Fabs(a) == IF IsNaN(a) THEN NaN ELSE IF a < 0 THEN -a ELSE a

\* a - b for a finite or infinite a and a finite b (exact on the samples)
Fsub(a, b) ==
    IF IsNaN(a) \/ IsNaN(b) THEN NaN
    ELSE IF a = Inf \/ a = -Inf THEN a
    ELSE a - b

\* a <= b; every comparison with NaN is false
Fle(a, b) == ~IsNaN(a) /\ ~IsNaN(b) /\ a <= b

\* a == b of PartialEq for f32
Feq(a, b) == ~IsNaN(a) /\ ~IsNaN(b) /\ a = b

\* 1.0f32.copysign(value) as i32, for a value that is not NaN
CopysignOne(value) == IF value < 0 THEN -1 ELSE 1

\* the value is a whole number: a multiple of 1.0
IsWhole(a) == ~IsNaN(a) /\ a % One = 0

\* a + b and -a on finite values; exact while the sum stays below 2^7
\* (each operation is a function applied to its operands, so that an operand
\* is evaluated once however often the operation reads it)
Fadd(a, b) ==
    LET sum[x \in Int, y \in Int] == IF IsNaN(x) \/ IsNaN(y) THEN NaN ELSE x + y
    IN  sum[a, b]

Fneg(a) ==
    LET negated[x \in Int] == IF IsNaN(x) THEN NaN ELSE -x
    IN  negated[a]

\* 2^-12: the product of two multiples of Grain is a multiple of 2^-24
Grain == 2^12

\* a * b, defined where it is exact in f32: one factor is a whole number, or
\* both are multiples of 2^-12 (the values used are below 2^7, so that no
\* product needs more than 24 significant bits).  No value is given to any
\* other product.
Fmul(a, b) ==
    LET product[x \in Int, y \in Int] ==
            IF IsNaN(x) \/ IsNaN(y) THEN NaN
            ELSE IF x = Inf \/ y = Inf THEN CHOOSE p \in {} : TRUE
            ELSE IF IsWhole(x) THEN (x \div One) * y
            ELSE IF IsWhole(y) THEN x * (y \div One)
            ELSE IF x % Grain = 0 /\ y % Grain = 0 THEN (x \div Grain) * (y \div Grain)
            ELSE CHOOSE p \in {} : TRUE
    IN  product[a, b]

\* value.sqrt(), defined where it is exact: the squares of 0..8
Fsqrt(value) ==
    LET root[x \in Int] ==
            IF IsNaN(x) THEN NaN
            ELSE IF \E r \in 0..8 : r * r * One = x
                 THEN (CHOOSE r \in 0..8 : r * r * One = x) * One
                 ELSE CHOOSE r \in {} : TRUE
    IN  root[value]

\* 1.0 / value, defined where it is exact: 1/0 is infinite, and the inverse
\* of a power of two between 2^-12 and 2^12 is a power of two
Frecip(value) ==
    LET quotient[x \in Int] ==
            IF IsNaN(x) THEN NaN
            ELSE IF x = 0 THEN Inf
            ELSE IF x > 0 /\ x % Grain = 0 /\ One % (x \div Grain) = 0
                 THEN (One \div (x \div Grain)) * Grain
                 ELSE CHOOSE q \in {} : TRUE
    IN  quotient[value]

\* value.round(): to the nearest whole number, halves away from zero
f32_round(value) ==
    IF IsNaN(value) \/ value = Inf THEN value
    ELSE IF value >= 0 THEN ((value + Half) \div One) * One
    ELSE -((((-value) + Half) \div One) * One)

\* value as i32: truncation towards zero, NaN becomes 0 (the saturation at
\* the ends of i32 is out of reach of the values used)
f32_as_i32(value) ==
    IF IsNaN(value) THEN 0
    ELSE IF value >= 0 THEN value \div One
    ELSE -((-value) \div One)

\* value as f32, exact for an i32 below 2^24 in magnitude
i32_as_f32(value) == value * One

(***************************************************************************)
(* Vector3                                                                 *)
(***************************************************************************)
Vector3(x, y, z) == [x |-> x, y |-> y, z |-> z]

\* derived PartialEq
Vector3Eq(a, b) == Feq(a.x, b.x) /\ Feq(a.y, b.y) /\ Feq(a.z, b.z)

approx_unit_or_zero(value) ==
    IF Fle(Fabs(value), EPSILON) THEN Some(0)
    ELSE IF Fle(Fsub(Fabs(value), One), EPSILON) THEN Some(CopysignOne(value))
    ELSE None

\* mutant: the negative axes are numbered from 2 instead of 3
get_normal_id_off(position, value) ==
    IF value = 1 THEN Some(position)
    ELSE IF value = -1 THEN Some(position + 2)
    ELSE None

get_normal_id(position, value) ==
    IF value = 1 THEN Some(position)
    ELSE IF value = -1 THEN Some(position + 3)
    ELSE None

to_normal_id(self) ==
    LET x == approx_unit_or_zero(self.x)
        y == approx_unit_or_zero(self.y)
        z == approx_unit_or_zero(self.z)
    IN  IF IsSome(x) /\ y = Some(0) /\ z = Some(0) THEN get_normal_id(0, Unwrap(x))
        ELSE IF x = Some(0) /\ IsSome(y) /\ z = Some(0) THEN get_normal_id(1, Unwrap(y))
        ELSE IF x = Some(0) /\ y = Some(0) /\ IsSome(z) THEN get_normal_id(2, Unwrap(z))
        ELSE None

(***************************************************************************)
(* Matrix3                                                                 *)
(***************************************************************************)
Matrix3(x, y, z) == [x |-> x, y |-> y, z |-> z]

Matrix3Eq(a, b) == Vector3Eq(a.x, b.x) /\ Vector3Eq(a.y, b.y) /\ Vector3Eq(a.z, b.z)

identity == Matrix3(Vector3(One, 0, 0), Vector3(0, One, 0), Vector3(0, 0, One))

transpose(self) ==
    Matrix3(Vector3(self.x.x, self.y.x, self.z.x),
            Vector3(self.x.y, self.y.y, self.z.y),
            Vector3(self.x.z, self.y.z, self.z.z))

\* Result<Matrix3, Error>
Ok(v) == [ok |-> TRUE, value |-> v]
Err(e) == [ok |-> FALSE, error |-> e]
BadRotationId(id) == [kind |-> "BadRotationId", id |-> id]

\* a row of the table, written with the signs of the source: 1 is 1.0
Row(a, b, c) == Vector3(a * One, b * One, c * One)

BasicRotationTable ==
    [i \in {2, 3, 5, 6, 7, 9, 10, 12, 13, 14, 16, 17,
            20, 21, 23, 24, 25, 27, 28, 30, 31, 32, 34, 35} |->
        CASE i = 2  -> identity
          [] i = 3  -> Matrix3(Row(1, 0, 0), Row(0, 0, -1), Row(0, 1, 0))
          [] i = 5  -> Matrix3(Row(1, 0, 0), Row(0, -1, 0), Row(0, 0, -1))
          [] i = 6  -> Matrix3(Row(1, 0, 0), Row(0, 0, 1), Row(0, -1, 0))
          [] i = 7  -> Matrix3(Row(0, 1, 0), Row(1, 0, 0), Row(0, 0, -1))
          [] i = 9  -> Matrix3(Row(0, 0, 1), Row(1, 0, 0), Row(0, 1, 0))
          [] i = 10 -> Matrix3(Row(0, -1, 0), Row(1, 0, 0), Row(0, 0, 1))
          [] i = 12 -> Matrix3(Row(0, 0, -1), Row(1, 0, 0), Row(0, -1, 0))
          [] i = 13 -> Matrix3(Row(0, 1, 0), Row(0, 0, 1), Row(1, 0, 0))
          [] i = 14 -> Matrix3(Row(0, 0, -1), Row(0, 1, 0), Row(1, 0, 0))
          [] i = 16 -> Matrix3(Row(0, -1, 0), Row(0, 0, -1), Row(1, 0, 0))
          [] i = 17 -> Matrix3(Row(0, 0, 1), Row(0, -1, 0), Row(1, 0, 0))
          [] i = 20 -> Matrix3(Row(-1, 0, 0), Row(0, 1, 0), Row(0, 0, -1))
          [] i = 21 -> Matrix3(Row(-1, 0, 0), Row(0, 0, 1), Row(0, 1, 0))
          [] i = 23 -> Matrix3(Row(-1, 0, 0), Row(0, -1, 0), Row(0, 0, 1))
          [] i = 24 -> Matrix3(Row(-1, 0, 0), Row(0, 0, -1), Row(0, -1, 0))
          [] i = 25 -> Matrix3(Row(0, 1, 0), Row(-1, 0, 0), Row(0, 0, 1))
          [] i = 27 -> Matrix3(Row(0, 0, -1), Row(-1, 0, 0), Row(0, 1, 0))
          [] i = 28 -> Matrix3(Row(0, -1, 0), Row(-1, 0, 0), Row(0, 0, -1))
          [] i = 30 -> Matrix3(Row(0, 0, 1), Row(-1, 0, 0), Row(0, -1, 0))
          [] i = 31 -> Matrix3(Row(0, 1, 0), Row(0, 0, -1), Row(-1, 0, 0))
          [] i = 32 -> Matrix3(Row(0, 0, 1), Row(0, 1, 0), Row(-1, 0, 0))
          [] i = 34 -> Matrix3(Row(0, -1, 0), Row(0, 0, 1), Row(-1, 0, 0))
          [] i = 35 -> Matrix3(Row(0, 0, -1), Row(0, -1, 0), Row(-1, 0, 0))]

\* mutant: the arms 0x03 and 0x06 carry each other's matrix
from_basic_rotation_id_swapped(id) ==
    IF id \in DOMAIN BasicRotationTable
    THEN Ok(BasicRotationTable[IF id = 3 THEN 6 ELSE IF id = 6 THEN 3 ELSE id])
    ELSE Err(BadRotationId(id))

\* mutant: the arm 0x23 is missing and falls through to the error arm
from_basic_rotation_id_short(id) ==
    IF id \in DOMAIN BasicRotationTable \ {35}
    THEN Ok(BasicRotationTable[id])
    ELSE Err(BadRotationId(id))

\* mutant: the arm 0x05 repeats the matrix of 0x02
from_basic_rotation_id_dup(id) ==
    IF id \in DOMAIN BasicRotationTable
    THEN Ok(BasicRotationTable[IF id = 5 THEN 2 ELSE id])
    ELSE Err(BadRotationId(id))

from_basic_rotation_id(id) ==
    IF id \in DOMAIN BasicRotationTable
    THEN Ok(BasicRotationTable[id])
    ELSE Err(BadRotationId(id))

to_basic_rotation_id(self) ==
    LET t == transpose(self)
        x_id == to_normal_id(t.x)
        y_id == to_normal_id(t.y)
        z_id == to_normal_id(t.z)
    IN  IF ~IsSome(x_id) \/ ~IsSome(y_id) \/ ~IsSome(z_id) THEN None
        ELSE LET basic_rotation_id == (6 * Unwrap(x_id)) + Unwrap(y_id) + 1
                 r == from_basic_rotation_id(basic_rotation_id)
             IN  IF ~r.ok THEN None
                 ELSE LET rz == to_normal_id(transpose(r.value).z)
                      IN  IF ~IsSome(rz) THEN None
                          ELSE IF Unwrap(rz) = Unwrap(z_id)
                               THEN Some(basic_rotation_id)
                               ELSE None

\* Matrix3::orthonormalize.  Each of the three steps is a function of the
\* values it reads, so that a step is computed from the values of the steps
\* before it.
orthonormalize(self) ==
    LET \* compute q0
        q0[m00 \in Int, m10 \in Int, m20 \in Int] ==
            LET f_inv_length ==
                    Frecip(Fsqrt(Fadd(Fadd(Fmul(m00, m00), Fmul(m10, m10)), Fmul(m20, m20))))
            IN  <<Fmul(m00, f_inv_length), Fmul(m10, f_inv_length), Fmul(m20, f_inv_length)>>
        \* compute q1
        q1[e00 \in Int, e10 \in Int, e20 \in Int, m01 \in Int, m11 \in Int, m21 \in Int] ==
            LET f_dot0 == Fadd(Fadd(Fmul(e00, m01), Fmul(e10, m11)), Fmul(e20, m21))
                e01 == Fadd(m01, Fneg(Fmul(f_dot0, e00)))
                e11 == Fadd(m11, Fneg(Fmul(f_dot0, e10)))
                e21 == Fadd(m21, Fneg(Fmul(f_dot0, e20)))
                f_inv_length ==
                    Frecip(Fsqrt(Fadd(Fadd(Fmul(e01, e01), Fmul(e11, e11)), Fmul(e21, e21))))
            IN  <<Fmul(e01, f_inv_length), Fmul(e11, f_inv_length), Fmul(e21, f_inv_length)>>
        \* compute q2
        q2[e00 \in Int, e10 \in Int, e20 \in Int, e01 \in Int, e11 \in Int, e21 \in Int,
           m02 \in Int, m12 \in Int, m22 \in Int] ==
            LET f_dot1 == Fadd(Fadd(Fmul(e01, m02), Fmul(e11, m12)), Fmul(e21, m22))
                f_dot0 == Fadd(Fadd(Fmul(e00, m02), Fmul(e10, m12)), Fmul(e20, m22))
                e02 == Fadd(m02, Fneg(Fadd(Fmul(f_dot0, e00), Fmul(f_dot1, e01))))
                e12 == Fadd(m12, Fneg(Fadd(Fmul(f_dot0, e10), Fmul(f_dot1, e11))))
                e22 == Fadd(m22, Fneg(Fadd(Fmul(f_dot0, e20), Fmul(f_dot1, e21))))
                f_inv_length ==
                    Frecip(Fsqrt(Fadd(Fadd(Fmul(e02, e02), Fmul(e12, e12)), Fmul(e22, e22))))
            IN  <<Fmul(e02, f_inv_length), Fmul(e12, f_inv_length), Fmul(e22, f_inv_length)>>
        c0 == q0[self.x.x, self.y.x, self.z.x]
        c1 == q1[c0[1], c0[2], c0[3], self.x.y, self.y.y, self.z.y]
        c2 == q2[c0[1], c0[2], c0[3], c1[1], c1[2], c1[3], self.x.z, self.y.z, self.z.z]
    IN  Matrix3(Vector3(c0[1], c1[1], c2[1]),
                Vector3(c0[2], c1[2], c2[2]),
                Vector3(c2[3], c1[3], c2[3]))

(***************************************************************************)
(* nalgebra.  A na::Vector3 is a tuple of three scalars, a na::Matrix3 a    *)
(* tuple of three rows.  The operations are modelled by their algebra,      *)
(* which is exact on the whole-number entries used below.  Rotation3::      *)
(* from_matrix extracts the rotation part of a matrix by iteration; it is   *)
(* modelled by its contract on a rotation matrix, which is to return that   *)
(* rotation: the rounding of its iteration is not modelled.                 *)
(***************************************************************************)
\* From<Vector3> for na::Vector3 (and Point3, Translation3) and back
na_Vector3_from(value) == <<value.x, value.y, value.z>>

Vector3_from_na(value) == Vector3(value[1], value[2], value[3])

\* From<Matrix3> for na::Matrix3 and back
na_Matrix3_from(v) ==
    <<<<v.x.x, v.x.y, v.x.z>>, <<v.y.x, v.y.y, v.y.z>>, <<v.z.x, v.z.y, v.z.z>>>>

Matrix3_from_na(value) ==
    Matrix3(Vector3(value[1][1], value[1][2], value[1][3]),
            Vector3(value[2][1], value[2][2], value[2][3]),
            Vector3(value[3][1], value[3][2], value[3][3]))

na_transpose(m) == [i \in 1..3 |-> [j \in 1..3 |-> m[j][i]]]

na_add(a, b) == [i \in 1..3 |-> Fadd(a[i], b[i])]

na_neg(a) == [i \in 1..3 |-> Fneg(a[i])]

\* matrix * vector
na_mul_vector(m, v) ==
    [i \in 1..3 |-> Fadd(Fadd(Fmul(m[i][1], v[1]), Fmul(m[i][2], v[2])), Fmul(m[i][3], v[3]))]

\* matrix * matrix
na_mul(a, b) ==
    [i \in 1..3 |-> [j \in 1..3 |->
        Fadd(Fadd(Fmul(a[i][1], b[1][j]), Fmul(a[i][2], b[2][j])), Fmul(a[i][3], b[3][j]))]]

na_identity == na_Matrix3_from(identity)

\* a rotation matrix with whole-number entries: orthonormal, determinant +1
IsRotation(m) ==
    /\ \A i, j \in 1..3 : IsWhole(m[i][j])
    /\ na_mul(m, na_transpose(m)) = na_identity
    /\ Fadd(Fadd(Fmul(m[1][1], Fadd(Fmul(m[2][2], m[3][3]), Fneg(Fmul(m[2][3], m[3][2])))),
                 Fmul(m[1][2], Fadd(Fmul(m[2][3], m[3][1]), Fneg(Fmul(m[2][1], m[3][3]))))),
            Fmul(m[1][3], Fadd(Fmul(m[2][1], m[3][2]), Fneg(Fmul(m[2][2], m[3][1]))))) = One

\* Rotation3::from_matrix on a rotation matrix; no value is given otherwise
Rotation3_from_matrix(m) ==
    IF IsRotation(m) THEN m ELSE CHOOSE rotation \in {} : TRUE

\* IsometryMatrix3::from_parts
Isometry(translation, rotation) == [translation |-> translation, rotation |-> rotation]

\* IsometryMatrix3 * IsometryMatrix3
Isometry_mul(a, b) ==
    Isometry(na_add(a.translation, na_mul_vector(a.rotation, b.translation)),
             na_mul(a.rotation, b.rotation))

\* mutant: the rotation is kept and only the translation is inverted
Isometry_inverse_untransposed(a) ==
    Isometry(na_mul_vector(a.rotation, na_neg(a.translation)), a.rotation)

\* IsometryMatrix3::inverse: the rotation is transposed, the translation is
\* negated and then rotated by the transposed rotation
Isometry_inverse(a) ==
    LET r == na_transpose(a.rotation)
    IN  Isometry(na_mul_vector(r, na_neg(a.translation)), r)

(***************************************************************************)
(* CFrame                                                                  *)
(***************************************************************************)
CFrame(position, orientation) == [position |-> position, orientation |-> orientation]

\* From<CFrame> for na::IsometryMatrix3
CFrame_into_alg(self) ==
    Isometry(na_Vector3_from(self.position),
             Rotation3_from_matrix(na_Matrix3_from(self.orientation)))

\* From<na::IsometryMatrix3> for CFrame
CFrame_from_alg(value) ==
    CFrame(Vector3_from_na(value.translation), Matrix3_from_na(value.rotation))

CFrame_inverse(self) == CFrame_from_alg(Isometry_inverse(CFrame_into_alg(self)))

\* Add<Vector3> for CFrame, Sub<Vector3> for CFrame
CFrame_add(self, rhs) ==
    LET pos == self.position
    IN  CFrame(Vector3(Fadd(pos.x, rhs.x), Fadd(pos.y, rhs.y), Fadd(pos.z, rhs.z)),
               self.orientation)

CFrame_sub(self, rhs) ==
    LET pos == self.position
    IN  CFrame(Vector3(Fadd(pos.x, Fneg(rhs.x)), Fadd(pos.y, Fneg(rhs.y)),
                       Fadd(pos.z, Fneg(rhs.z))),
               self.orientation)

\* Mul<Self> for CFrame
CFrame_mul(self, rhs) ==
    CFrame_from_alg(Isometry_mul(CFrame_into_alg(self), CFrame_into_alg(rhs)))

\* Mul<Vector3> for CFrame
CFrame_mul_vector(self, rhs) ==
    Vector3_from_na(na_mul_vector(na_transpose(na_Matrix3_from(self.orientation)),
                                  na_Vector3_from(rhs)))

point_to_world_space(self, v3) == CFrame_mul_vector(self, v3)

\* mutant: the transform is applied as it is, not its inverse
point_to_object_space_forward(self, v3) == CFrame_mul_vector(self, v3)

point_to_object_space(self, v3) == CFrame_mul_vector(CFrame_inverse(self), v3)

vector_to_world_space(self, v3) == CFrame_mul_vector(CFrame_sub(self, self.position), v3)

vector_to_object_space(self, v3) ==
    CFrame_mul_vector(CFrame_sub(CFrame_inverse(self), CFrame_inverse(self).position), v3)

\* CFrame::orthonormalize
CFrame_orthonormalize(self) == CFrame(self.position, orthonormalize(self.orientation))

\* na::Vector3::lerp: self * (1 - t) + rhs * t
na_lerp(a, b, t) ==
    [i \in 1..3 |-> Fadd(Fmul(a[i], Fadd(One, Fneg(t))), Fmul(b[i], t))]

\* na::UnitQuaternion::from(Matrix3) followed by slerp and the conversion
\* back to a rotation, modelled where it is exact: two identity rotations
\* interpolate to the identity rotation.  No value is given otherwise.
UnitQuaternion_slerp(q1, q2, alpha) ==
    IF q1 = na_identity /\ q2 = na_identity
    THEN na_identity
    ELSE CHOOSE rotation \in {} : TRUE

\* mutant: the end points are exchanged
CFrame_lerp_exchanged(self, goal, alpha) ==
    IF alpha = 0 THEN goal ELSE IF alpha = One THEN self
    ELSE CFrame(Vector3_from_na(na_lerp(na_Vector3_from(self.position),
                                        na_Vector3_from(goal.position), alpha)),
                self.orientation)

\* CFrame::lerp
CFrame_lerp(self, goal, alpha) ==
    IF Feq(alpha, 0) THEN self
    ELSE IF Feq(alpha, One) THEN goal
    ELSE LET q1 == Rotation3_from_matrix(na_Matrix3_from(self.orientation))
             q2 == Rotation3_from_matrix(na_Matrix3_from(goal.orientation))
             q == UnitQuaternion_slerp(q1, q2, alpha)
             t == na_lerp(na_Vector3_from(self.position),
                          na_Vector3_from(goal.position), alpha)
         IN  CFrame_from_alg(Isometry(t, q))

(***************************************************************************)
(* Color3, UDim, UDim2                                                     *)
(***************************************************************************)
Color3(r, g, b) == [r |-> r, g |-> g, b |-> b]

\* the Lua method Lerp of Color3
Color3_Lerp(this, color, alpha) ==
    LET beta == Fsub(One, alpha)
    IN  Color3(Fadd(Fmul(this.r, alpha), Fmul(color.r, beta)),
               Fadd(Fmul(this.g, alpha), Fmul(color.g, beta)),
               Fadd(Fmul(this.b, alpha), Fmul(color.b, beta)))

UDim(scale, offset) == [scale |-> scale, offset |-> offset]

\* UDim::lerp
UDim_lerp(self, goal, alpha) ==
    LET beta == Fsub(One, alpha)
        scale == Fadd(Fmul(self.scale, alpha), Fmul(goal.scale, beta))
        offset == Fadd(Fmul(i32_as_f32(self.offset), alpha),
                       Fmul(i32_as_f32(goal.offset), beta))
    IN  UDim(scale, f32_as_i32(f32_round(offset)))

UDim2(x, y) == [x |-> x, y |-> y]

\* UDim2::lerp
UDim2_lerp(self, goal, alpha) ==
    UDim2(UDim_lerp(self.x, goal.x, alpha), UDim_lerp(self.y, goal.y, alpha))

(***************************************************************************)
(* u8 bit operations                                                       *)
(***************************************************************************)
U8 == 0..255

Bit(n, i) == (n \div 2^i) % 2

BitAnd(a, b) ==
    LET f[i \in 0..8] == IF i = 8 THEN 0 ELSE Bit(a, i) * Bit(b, i) * 2^i + f[i + 1]
    IN  f[0]

BitOr(a, b) ==
    LET f[i \in 0..8] ==
            IF i = 8 THEN 0
            ELSE (IF Bit(a, i) = 1 \/ Bit(b, i) = 1 THEN 2^i ELSE 0) + f[i + 1]
    IN  f[0]

BitNot(a) == 255 - a

\* u8::count_ones
count_ones(n) ==
    LET f[i \in 0..8] == IF i = 8 THEN 0 ELSE Bit(n, i) + f[i + 1]
    IN  f[0]

(***************************************************************************)
(* FaceFlags (bitflags! over u8) and Faces, a struct of one FaceFlags      *)
(***************************************************************************)
RIGHT == 1
TOP == 2
BACK == 4
LEFT == 8
BOTTOM == 16
FRONT == 32

FaceFlags_empty == 0

\* the union of every declared flag
FaceFlags_all ==
    BitOr(RIGHT, BitOr(TOP, BitOr(BACK, BitOr(LEFT, BitOr(BOTTOM, FRONT)))))

\* mutant: the bits are kept without checking them against the declared flags
FaceFlags_from_bits_retain(bits) == Some(bits)

\* None when a bit outside the declared flags is set
FaceFlags_from_bits(bits) ==
    IF BitAnd(bits, BitNot(FaceFlags_all)) = 0 THEN Some(bits) ELSE None

FaceFlags_contains(self, other) == BitAnd(self, other) = other

\* insert when value is true, remove otherwise
FaceFlags_set(self, other, value) ==
    IF value THEN BitOr(self, other) ELSE BitAnd(self, BitNot(other))

flag_if(cond, flag) == IF cond THEN flag ELSE FaceFlags_empty

Faces_new(right, top, back, left, bottom, front) ==
    BitOr(flag_if(right, RIGHT),
    BitOr(flag_if(top, TOP),
    BitOr(flag_if(back, BACK),
    BitOr(flag_if(left, LEFT),
    BitOr(flag_if(bottom, BOTTOM), flag_if(front, FRONT))))))

Faces_empty == FaceFlags_empty

Faces_all == FaceFlags_all

Faces_contains(self, other) == FaceFlags_contains(self, other)

Faces_bits(self) == self

Faces_from_bits(bits) == FaceFlags_from_bits(bits)

\* mutant: counts the clear bits of the byte
Faces_len_zeros(self) == 8 - count_ones(Faces_bits(self))

Faces_len(self) == count_ones(Faces_bits(self))

\* the flag behind a scripting field name
FieldFlag(name) ==
    CASE name = "Right" -> RIGHT
      [] name = "Top" -> TOP
      [] name = "Back" -> BACK
      [] name = "Left" -> LEFT
      [] name = "Bottom" -> BOTTOM
      [] name = "Front" -> FRONT

field_get(this, name) == FaceFlags_contains(this, FieldFlag(name))

field_set(this, name, val) == FaceFlags_set(this, FieldFlag(name), val)

(***************************************************************************)
(* Faces on the wire.  The human form is a sequence of strings opened      *)
(* with an announced length; the compact form is one u8.                   *)
(***************************************************************************)
SeqWire(len, elems) == [kind |-> "seq", len |-> len, elems |-> elems]
U8Wire(value) == [kind |-> "u8", value |-> value]

Custom(msg) == [kind |-> "custom", msg |-> msg]

serialize_element(seq, cond, name) == IF cond THEN Append(seq, name) ELSE seq

\* mutant: the Bottom and Front arms emit each other's name
serialize_swapped(self, human) ==
    IF human
    THEN LET s1 == serialize_element(<<>>, Faces_contains(self, RIGHT), "Right")
             s2 == serialize_element(s1, Faces_contains(self, TOP), "Top")
             s3 == serialize_element(s2, Faces_contains(self, BACK), "Back")
             s4 == serialize_element(s3, Faces_contains(self, LEFT), "Left")
             s5 == serialize_element(s4, Faces_contains(self, BOTTOM), "Front")
             s6 == serialize_element(s5, Faces_contains(self, FRONT), "Bottom")
         IN  SeqWire(Some(Faces_len(self)), s6)
    ELSE U8Wire(Faces_bits(self))

serialize(self, human) ==
    IF human
    THEN LET s1 == serialize_element(<<>>, Faces_contains(self, RIGHT), "Right")
             s2 == serialize_element(s1, Faces_contains(self, TOP), "Top")
             s3 == serialize_element(s2, Faces_contains(self, BACK), "Back")
             s4 == serialize_element(s3, Faces_contains(self, LEFT), "Left")
             s5 == serialize_element(s4, Faces_contains(self, BOTTOM), "Bottom")
             s6 == serialize_element(s5, Faces_contains(self, FRONT), "Front")
         IN  SeqWire(Some(Faces_len(self)), s6)
    ELSE U8Wire(Faces_bits(self))

\* HumanVisitor::visit_seq from element i on, with the flags gathered so far
RECURSIVE visit_from(_, _, _)
visit_from(elems, i, flags) ==
    IF i > Len(elems) THEN Ok(flags)
    ELSE LET face_str == elems[i]
         IN  CASE face_str = "Right" -> visit_from(elems, i + 1, BitOr(flags, RIGHT))
               [] face_str = "Top" -> visit_from(elems, i + 1, BitOr(flags, TOP))
               [] face_str = "Back" -> visit_from(elems, i + 1, BitOr(flags, BACK))
               [] face_str = "Left" -> visit_from(elems, i + 1, BitOr(flags, LEFT))
               [] face_str = "Bottom" -> visit_from(elems, i + 1, BitOr(flags, BOTTOM))
               [] face_str = "Front" -> visit_from(elems, i + 1, BitOr(flags, FRONT))
               [] OTHER -> Err(Custom(<<"invalid face '", face_str, "'">>))

\* mutant: each arm assigns its flag (flags = ..) instead of adding it (flags |= ..)
visit_seq_assign(elems) ==
    LET r == visit_from(elems, 1, FaceFlags_empty)
    IN  IF ~r.ok \/ Len(elems) = 0 THEN r
        ELSE visit_from(<<elems[Len(elems)]>>, 1, FaceFlags_empty)

\* mutant: the fallback arm skips an unrecognised string instead of failing
visit_seq_skip(elems) ==
    visit_from(SelectSeq(elems, LAMBDA str : str \in {"Right", "Top", "Back", "Left", "Bottom", "Front"}),
               1, FaceFlags_empty)

visit_seq(elems) == visit_from(elems, 1, FaceFlags_empty)

\* mutant: the compact byte is taken as the flags without validation
deserialize_unchecked(wire, human) ==
    IF human
    THEN visit_seq(wire.elems)
    ELSE Ok(wire.value)

deserialize(wire, human) ==
    IF human
    THEN visit_seq(wire.elems)
    ELSE LET r == Faces_from_bits(wire.value)
         IN  IF IsSome(r) THEN Ok(Unwrap(r))
             ELSE Err(Custom("value must a u8 bitmask of faces"))

(***************************************************************************)
(* Inputs                                                                  *)
(***************************************************************************)
\* exact f32 values around the two thresholds of approx_unit_or_zero
F32Samples ==
    {0, 1, -1, EPSILON, -EPSILON, EPSILON + 1, -(EPSILON + 1),
     Half, -Half, One - 1, -(One - 1), One, -One,
     One + EPSILON, -(One + EPSILON), One + 2 * EPSILON, -(One + 2 * EPSILON),
     2 * One, -2 * One, Inf, -Inf, NaN}

Vector3Samples == [x : F32Samples, y : F32Samples, z : F32Samples]

\* rows of the matrices handed to to_basic_rotation_id
RowSamples ==
    {Row(1, 0, 0), Row(0, 1, 0), Row(0, 0, 1),
     Row(-1, 0, 0), Row(0, -1, 0), Row(0, 0, -1),
     Row(0, 0, 0), Row(1, 1, 0), Row(0, 0, 2),
     Vector3(Half, 0, 0), Vector3(0, Half, 0), Vector3(0, 0, -Half),
     Vector3(One + EPSILON, 0, 0), Vector3(0, One - 1, 0),
     Vector3(EPSILON, One, 0), Vector3(NaN, 0, 0)}

Matrix3Samples == [x : RowSamples, y : RowSamples, z : RowSamples]

\* strings offered to the human-form decoder: the six names and two others
FaceNames == {"Right", "Top", "Back", "Left", "Bottom", "Front"}

FaceStrings == FaceNames \cup {"calzone", "right"}

MaxListLen == 3

FaceLists == UNION {[1..k -> FaceStrings] : k \in 0..MaxListLen}

\* the lists decoded into the value the host holds
MaxHostListLen == 2

HostFaceLists == UNION {[1..k -> FaceStrings] : k \in 0..MaxHostListLen}

\* the orientations of the CFrame inputs: the 24 axis-aligned rotations
RotationSamples == {BasicRotationTable[id] : id \in DOMAIN BasicRotationTable}

\* the positions of the CFrame inputs
PositionSamples == {Row(0, 0, 0), Row(1, 0, 0), Row(0, -2, 0), Row(1, 2, 3)}

CFrameSamples == [position : PositionSamples, orientation : RotationSamples]

\* the vectors handed to the CFrame operations: whole coordinates
MaxCoord == 1

CoordSamples == {k * One : k \in (-MaxCoord)..MaxCoord}

PointSamples == [x : CoordSamples, y : CoordSamples, z : CoordSamples]

\* orientations that are not orthonormal
SkewSamples ==
    {Matrix3(Row(2, 1, 1), Row(0, 1, 1), Row(0, 0, 2)),
     Matrix3(Row(0, 4, 0), Row(2, 0, 0), Row(0, 0, 1))}

\* the inputs of orthonormalize: the 24 rotations, a reflection and matrices
\* that are not orthonormal (their Gram-Schmidt lengths are powers of two)
OrthonormalizeSamples ==
    RotationSamples \cup SkewSamples \cup {Matrix3(Row(1, 0, 0), Row(0, 1, 0), Row(0, 0, -1))}

\* the interpolation parameters: the end points, points between and beyond
\* them, and NaN
AlphaSamples == {0, One, Half, One \div 4, 2 * One, -One, NaN}

\* the transforms interpolated at the end points
LerpCFrameSamples ==
    [position : {Row(0, 0, 0), Row(1, 2, 3)},
     orientation : {identity, BasicRotationTable[3], BasicRotationTable[10]}
                      \cup SkewSamples]

\* the transforms interpolated at other parameters
LerpIdentitySamples == [position : PositionSamples, orientation : {identity}]

ChannelSamples == {0, Half, One}

Color3Samples == [r : ChannelSamples, g : {0, One \div 4}, b : {One, 2 * One}]

ScaleSamples == {0, Half, -One}

MaxOffset == 2

UDimSamples == [scale : ScaleSamples, offset : (-MaxOffset)..MaxOffset]

UDim2Samples ==
    [x : {UDim(0, 0), UDim(Half, MaxOffset)}, y : {UDim(-One, -1), UDim(One, 1)}]

(***************************************************************************)
(* Single invocations of the pure operations.  The initial state holds a   *)
(* pending call with its arguments; the operation's action applies it and  *)
(* records what it returned.                                               *)
(***************************************************************************)
Pending(op, arg) == [op |-> op, arg |-> arg, done |-> FALSE, ret |-> None]

Returned(op) == call.op = op /\ call.done

Return(r) == call' = [call EXCEPT !.done = TRUE, !.ret = r]

\* Vector3::to_normal_id
ToNormalId ==
    /\ call.op = "to_normal_id" /\ ~call.done
    /\ Return(to_normal_id(call.arg))
    /\ UNCHANGED faces

\* Matrix3::from_basic_rotation_id
FromBasicRotationId ==
    /\ call.op = "from_basic_rotation_id" /\ ~call.done
    /\ Return(from_basic_rotation_id(call.arg))
    /\ UNCHANGED faces

\* Matrix3::to_basic_rotation_id
ToBasicRotationId ==
    /\ call.op = "to_basic_rotation_id" /\ ~call.done
    /\ Return(to_basic_rotation_id(call.arg))
    /\ UNCHANGED faces

InitVector3 ==
    /\ call \in {Pending("to_normal_id", v) : v \in Vector3Samples}
    /\ faces = 0

NextVector3 == ToNormalId

SpecVector3 == InitVector3 /\ [][NextVector3]_vars

\* Matrix3::orthonormalize
Orthonormalize ==
    /\ call.op = "orthonormalize" /\ ~call.done
    /\ Return(orthonormalize(call.arg))
    /\ UNCHANGED faces

InitMatrix3 ==
    /\ call \in {Pending("from_basic_rotation_id", id) : id \in U8}
          \cup {Pending("to_basic_rotation_id", m) : m \in Matrix3Samples}
          \cup {Pending("orthonormalize", m) : m \in OrthonormalizeSamples}
    /\ faces = 0

NextMatrix3 ==
    \/ FromBasicRotationId
    \/ ToBasicRotationId
    \/ Orthonormalize

SpecMatrix3 == InitMatrix3 /\ [][NextMatrix3]_vars

\* <CFrame as Mul<CFrame>>::mul
CallCFrameMul ==
    /\ call.op = "cframe_mul" /\ ~call.done
    /\ Return(CFrame_mul(call.arg.self, call.arg.rhs))
    /\ UNCHANGED faces

\* CFrame::inverse
CallInverse ==
    /\ call.op = "inverse" /\ ~call.done
    /\ Return(CFrame_inverse(call.arg))
    /\ UNCHANGED faces

\* CFrame::point_to_world_space
CallPointToWorldSpace ==
    /\ call.op = "point_to_world_space" /\ ~call.done
    /\ Return(point_to_world_space(call.arg.self, call.arg.v3))
    /\ UNCHANGED faces

\* CFrame::point_to_object_space
CallPointToObjectSpace ==
    /\ call.op = "point_to_object_space" /\ ~call.done
    /\ Return(point_to_object_space(call.arg.self, call.arg.v3))
    /\ UNCHANGED faces

\* CFrame::vector_to_world_space
CallVectorToWorldSpace ==
    /\ call.op = "vector_to_world_space" /\ ~call.done
    /\ Return(vector_to_world_space(call.arg.self, call.arg.v3))
    /\ UNCHANGED faces

\* CFrame::vector_to_object_space
CallVectorToObjectSpace ==
    /\ call.op = "vector_to_object_space" /\ ~call.done
    /\ Return(vector_to_object_space(call.arg.self, call.arg.v3))
    /\ UNCHANGED faces

\* CFrame::orthonormalize
CallCFrameOrthonormalize ==
    /\ call.op = "cframe_orthonormalize" /\ ~call.done
    /\ Return(CFrame_orthonormalize(call.arg))
    /\ UNCHANGED faces

\* CFrame::lerp
CallCFrameLerp ==
    /\ call.op = "cframe_lerp" /\ ~call.done
    /\ Return(CFrame_lerp(call.arg.self, call.arg.goal, call.arg.alpha))
    /\ UNCHANGED faces

PointCalls(op) ==
    {Pending(op, [self |-> cf, v3 |-> v]) : cf \in CFrameSamples, v \in PointSamples}

InitCFrame ==
    /\ call \in {Pending("cframe_mul", [self |-> a, rhs |-> b]) :
                    a \in CFrameSamples, b \in CFrameSamples}
          \cup {Pending("inverse", cf) : cf \in CFrameSamples}
          \cup PointCalls("point_to_world_space")
          \cup PointCalls("point_to_object_space")
          \cup PointCalls("vector_to_world_space")
          \cup PointCalls("vector_to_object_space")
          \cup {Pending("cframe_orthonormalize", CFrame(p, m)) :
                    p \in PositionSamples, m \in OrthonormalizeSamples}
          \cup {Pending("cframe_lerp", [self |-> a, goal |-> b, alpha |-> t]) :
                    a \in LerpCFrameSamples, b \in LerpCFrameSamples, t \in {0, One}}
          \cup {Pending("cframe_lerp", [self |-> a, goal |-> b, alpha |-> t]) :
                    a \in LerpIdentitySamples, b \in LerpIdentitySamples,
                    t \in AlphaSamples \ {NaN}}
    /\ faces = 0

NextCFrame ==
    \/ CallCFrameMul
    \/ CallInverse
    \/ CallPointToWorldSpace
    \/ CallPointToObjectSpace
    \/ CallVectorToWorldSpace
    \/ CallVectorToObjectSpace
    \/ CallCFrameOrthonormalize
    \/ CallCFrameLerp

SpecCFrame == InitCFrame /\ [][NextCFrame]_vars

\* UDim::lerp
CallUDimLerp ==
    /\ call.op = "udim_lerp" /\ ~call.done
    /\ Return(UDim_lerp(call.arg.self, call.arg.goal, call.arg.alpha))
    /\ UNCHANGED faces

\* UDim2::lerp
CallUDim2Lerp ==
    /\ call.op = "udim2_lerp" /\ ~call.done
    /\ Return(UDim2_lerp(call.arg.self, call.arg.goal, call.arg.alpha))
    /\ UNCHANGED faces

\* Color3 Lerp
CallColor3Lerp ==
    /\ call.op = "color3_lerp" /\ ~call.done
    /\ Return(Color3_Lerp(call.arg.this, call.arg.color, call.arg.alpha))
    /\ UNCHANGED faces

InitLerp ==
    /\ call \in {Pending("udim_lerp", [self |-> a, goal |-> b, alpha |-> t]) :
                    a \in UDimSamples, b \in UDimSamples, t \in AlphaSamples}
          \cup {Pending("udim2_lerp", [self |-> a, goal |-> b, alpha |-> t]) :
                    a \in UDim2Samples, b \in UDim2Samples, t \in AlphaSamples}
          \cup {Pending("color3_lerp", [this |-> a, color |-> b, alpha |-> t]) :
                    a \in Color3Samples, b \in Color3Samples, t \in AlphaSamples}
    /\ faces = 0

NextLerp ==
    \/ CallUDimLerp
    \/ CallUDim2Lerp
    \/ CallColor3Lerp

SpecLerp == InitLerp /\ [][NextLerp]_vars

\* Faces::from_bits
CallFromBits ==
    /\ call.op = "from_bits" /\ ~call.done
    /\ Return(Faces_from_bits(call.arg))
    /\ UNCHANGED faces

\* <Faces as Deserialize>::deserialize
CallDeserialize ==
    /\ call.op = "deserialize" /\ ~call.done
    /\ Return(deserialize(call.arg.wire, call.arg.human))
    /\ UNCHANGED faces

InitFacesWire ==
    /\ call \in {Pending("from_bits", b) : b \in U8}
          \cup {Pending("deserialize", [wire |-> U8Wire(b), human |-> FALSE]) : b \in U8}
          \cup {Pending("deserialize", [wire |-> SeqWire(Some(Len(l)), l), human |-> TRUE]) :
                    l \in FaceLists}
    /\ faces = 0

NextFacesWire ==
    \/ CallFromBits
    \/ CallDeserialize

SpecFacesWire == InitFacesWire /\ [][NextFacesWire]_vars

(***************************************************************************)
(* The Faces value held by the host.  It is built by the constructors and  *)
(* the decoders, changed in place by the scripting field setters, and      *)
(* read by the getters and the encoders.  A constructor or decoder that    *)
(* fails yields no value, and the value held before stays.  The log keeps  *)
(* the inputs of the decoders out: SpecFacesWire has them.                 *)
(***************************************************************************)
Done(op, arg, ret) == [op |-> op, arg |-> arg, done |-> TRUE, ret |-> ret]

Init ==
    /\ call = Done("init", None, None)
    /\ faces = Faces_empty

FacesNew(right, top, back, left, bottom, front) ==
    /\ faces' = Faces_new(right, top, back, left, bottom, front)
    /\ call' = Done("new", <<right, top, back, left, bottom, front>>, faces')

FacesEmpty ==
    /\ faces' = Faces_empty
    /\ call' = Done("empty", None, faces')

FacesAll ==
    /\ faces' = Faces_all
    /\ call' = Done("all", None, faces')

FacesFromBits(bits) ==
    LET r == Faces_from_bits(bits)
    IN  /\ faces' = IF IsSome(r) THEN Unwrap(r) ELSE faces
        /\ call' = Done("from_bits", None, r)

FieldGet(name) ==
    /\ call' = Done("get", name, field_get(faces, name))
    /\ UNCHANGED faces

FieldSet(name, val) ==
    /\ faces' = field_set(faces, name, val)
    /\ call' = Done("set", <<name, val>>, None)

Serialize(human) ==
    /\ call' = Done("serialize", human, serialize(faces, human))
    /\ UNCHANGED faces

DeserializeHuman(elems) ==
    LET r == deserialize(SeqWire(Some(Len(elems)), elems), TRUE)
    IN  /\ faces' = IF r.ok THEN r.value ELSE faces
        /\ call' = Done("deserialize", TRUE, r)

DeserializeCompact(byte) ==
    LET r == deserialize(U8Wire(byte), FALSE)
    IN  /\ faces' = IF r.ok THEN r.value ELSE faces
        /\ call' = Done("deserialize", FALSE, r)

Next ==
    \/ \E right, top, back, left, bottom, front \in BOOLEAN :
          FacesNew(right, top, back, left, bottom, front)
    \/ FacesEmpty
    \/ FacesAll
    \/ \E bits \in U8 : FacesFromBits(bits)
    \/ \E name \in FaceNames : FieldGet(name)
    \/ \E name \in FaceNames, val \in BOOLEAN : FieldSet(name, val)
    \/ \E human \in BOOLEAN : Serialize(human)
    \/ \E elems \in HostFaceLists : DeserializeHuman(elems)
    \/ \E byte \in U8 : DeserializeCompact(byte)

Spec == Init /\ [][Next]_vars

(***************************************************************************)
(* Claims about Vector3 and Matrix3                                        *)
(***************************************************************************)
\* the 24 rotation codes: 0x02 0x03 0x05 0x06 0x07 0x09 0x0a 0x0c 0x0d 0x0e
\* 0x10 0x11 0x14 0x15 0x17 0x18 0x19 0x1b 0x1c 0x1e 0x1f 0x20 0x22 0x23
ValidRotationIds ==
    {2, 3, 5, 6, 7, 9, 10, 12, 13, 14, 16, 17,
     20, 21, 23, 24, 25, 27, 28, 30, 31, 32, 34, 35}

\* the six signed axis-aligned unit vectors
AxisUnits ==
    {Row(1, 0, 0), Row(0, 1, 0), Row(0, 0, 1),
     Row(-1, 0, 0), Row(0, -1, 0), Row(0, 0, -1)}

\* C1: for each of the 24 valid rotation codes id, from_basic_rotation_id(id)
\* succeeds and to_basic_rotation_id of the matrix it returns is Some(id).
C1_RotationIdRoundTrip ==
    \A id \in ValidRotationIds :
        /\ from_basic_rotation_id(id).ok
        /\ (Returned("to_basic_rotation_id")
              /\ call.arg = from_basic_rotation_id(id).value)
           => call.ret = Some(id)

C1_Witness ==
    /\ Returned("to_basic_rotation_id")
    /\ call.arg = Matrix3(Row(0, 0, -1), Row(0, -1, 0), Row(-1, 0, 0))
    /\ call.ret = Some(35)

\* C2: from_basic_rotation_id succeeds for exactly the 24 listed bytes, and for
\* each of the other 232 bytes returns BadRotationId carrying that byte.
C2_ExactlyValidIdsDecode ==
    /\ Cardinality(ValidRotationIds) = 24
    /\ Cardinality(U8 \ ValidRotationIds) = 232
    /\ Returned("from_basic_rotation_id") =>
          /\ call.ret.ok <=> call.arg \in ValidRotationIds
          /\ ~call.ret.ok => call.ret.error = BadRotationId(call.arg)

C2_Witness ==
    /\ Returned("from_basic_rotation_id")
    /\ call.arg = 36
    /\ call.ret = Err(BadRotationId(36))

\* C3 (as claimed): whenever to_basic_rotation_id(m) returns Some(id),
\* from_basic_rotation_id(id) equals m exactly.
C3_EncodingNeverAlters ==
    (Returned("to_basic_rotation_id") /\ IsSome(call.ret)) =>
        LET r == from_basic_rotation_id(Unwrap(call.ret))
        IN  r.ok /\ Matrix3Eq(r.value, call.arg)

\* integer value of an entry that is a whole number
Whole(a) == a \div One

Dot(a, b) == Whole(a.x) * Whole(b.x) + Whole(a.y) * Whole(b.y) + Whole(a.z) * Whole(b.z)

Cross(a, b) ==
    Row(Whole(a.y) * Whole(b.z) - Whole(a.z) * Whole(b.y),
        Whole(a.z) * Whole(b.x) - Whole(a.x) * Whole(b.z),
        Whole(a.x) * Whole(b.y) - Whole(a.y) * Whole(b.x))

Det(m) == Dot(m.x, Cross(m.y, m.z))

\* C4: the matrices returned by from_basic_rotation_id are pairwise distinct,
\* every row and every column is a signed axis-aligned unit vector, the
\* determinant is +1 and the third column is the cross product of the first two.
C4_CubeRotations ==
    (Returned("from_basic_rotation_id") /\ call.ret.ok) =>
        LET m == call.ret.value
            t == transpose(m)
        IN  /\ {m.x, m.y, m.z} \subseteq AxisUnits
            /\ {t.x, t.y, t.z} \subseteq AxisUnits
            /\ Det(m) = 1
            /\ t.z = Cross(t.x, t.y)
            /\ \A other \in ValidRotationIds \ {call.arg} :
                  from_basic_rotation_id(other).value # m

C4_Witness ==
    /\ Returned("from_basic_rotation_id")
    /\ call.arg = 30
    /\ call.ret = Ok(Matrix3(Row(0, 0, 1), Row(-1, 0, 0), Row(0, -1, 0)))

\* |a| is within f32 epsilon of 1.0
NearUnit(a) == Fle(Fabs(Fsub(Fabs(a), One)), EPSILON)

\* |a| is at most f32 epsilon
NearZero(a) == Fle(Fabs(a), EPSILON)

\* C5 (as claimed): to_normal_id returns Some only when exactly one component
\* has absolute value within epsilon of 1.0 and the other two are at most
\* epsilon in absolute value.
C5_SomeOnlyForAxisVectors ==
    (Returned("to_normal_id") /\ IsSome(call.ret)) =>
        LET v == call.arg
        IN  \/ NearUnit(v.x) /\ NearZero(v.y) /\ NearZero(v.z)
            \/ NearZero(v.x) /\ NearUnit(v.y) /\ NearZero(v.z)
            \/ NearZero(v.x) /\ NearZero(v.y) /\ NearUnit(v.z)

\* C6: the six signed unit vectors map to the codes 0..5 in the order
\* +X, +Y, +Z, -X, -Y, -Z; the zero vector and (0.5, 0.5, 0) map to None.
C6_NormalIdTable ==
    Returned("to_normal_id") =>
        /\ call.arg = Row(1, 0, 0) => call.ret = Some(0)
        /\ call.arg = Row(0, 1, 0) => call.ret = Some(1)
        /\ call.arg = Row(0, 0, 1) => call.ret = Some(2)
        /\ call.arg = Row(-1, 0, 0) => call.ret = Some(3)
        /\ call.arg = Row(0, -1, 0) => call.ret = Some(4)
        /\ call.arg = Row(0, 0, -1) => call.ret = Some(5)
        /\ call.arg = Row(0, 0, 0) => call.ret = None
        /\ call.arg = Vector3(Half, Half, 0) => call.ret = None

C6_Witness ==
    /\ Returned("to_normal_id")
    /\ call.arg = Row(0, -1, 0)
    /\ call.ret = Some(4)

(***************************************************************************)
(* Claims about Faces                                                      *)
(***************************************************************************)
\* the flag names in canonical order; name i belongs to bit i - 1
CanonicalNames == <<"Right", "Top", "Back", "Left", "Bottom", "Front">>

\* C7: after any sequence of Faces operations the backing byte is below 64:
\* bits 6 and 7 are zero.
C7_BitsFitSixFlags ==
    /\ Faces_bits(faces) < 64
    /\ Bit(Faces_bits(faces), 6) = 0
    /\ Bit(Faces_bits(faces), 7) = 0

C7_Witness ==
    /\ call.op = "set"
    /\ call.arg = <<"Front", TRUE>>
    /\ faces = 63

\* C8: for each mask m with bits 6-7 clear, decoding the human-form encoding
\* of m yields m and decoding the compact encoding of m yields m.
C8_WireRoundTrip ==
    call.op = "serialize" =>
        /\ faces \in 0..63
        /\ deserialize(call.ret, call.arg) = Ok(faces)

C8_Witness ==
    /\ call.op = "serialize"
    /\ call.arg = TRUE
    /\ faces = 50
    /\ call.ret.elems = <<"Top", "Bottom", "Front">>

\* bit i of the byte (i in 0..5) is the flag named CanonicalNames[i + 1]
BitsMean(byte, value) ==
    \A i \in 0..5 : (Bit(byte, i) = 1) <=> field_get(value, CanonicalNames[i + 1])

\* C9: Faces::from_bits and compact decoding fail for every byte with bit 6
\* or 7 set, and succeed for every byte below 64 with bits 0..5 meaning
\* Right, Top, Back, Left, Bottom, Front.
C9_CompactDecode ==
    /\ Returned("from_bits") =>
          IF call.arg >= 64 THEN call.ret = None
          ELSE IsSome(call.ret) /\ BitsMean(call.arg, Unwrap(call.ret))
    /\ (Returned("deserialize") /\ ~call.arg.human) =>
          IF call.arg.wire.value >= 64 THEN ~call.ret.ok
          ELSE call.ret.ok /\ BitsMean(call.arg.wire.value, call.ret.value)

C9_Witness ==
    /\ Returned("deserialize")
    /\ call.arg = [wire |-> U8Wire(64), human |-> FALSE]
    /\ ~call.ret.ok

\* the names of the flags set in a mask, from canonical position i on
RECURSIVE NamesFrom(_, _)
NamesFrom(mask, i) ==
    IF i > 6 THEN <<>>
    ELSE (IF Bit(mask, i - 1) = 1 THEN <<CanonicalNames[i]>> ELSE <<>>)
            \o NamesFrom(mask, i + 1)

\* C10: the human-form encoding lists exactly the names of the set flags,
\* each once, in canonical order; the announced length is the number of
\* names emitted; empty() encodes as the empty list and all() as all six.
C10_HumanEncoding ==
    (call.op = "serialize" /\ call.arg = TRUE) =>
        /\ call.ret.kind = "seq"
        /\ call.ret.elems = NamesFrom(faces, 1)
        /\ call.ret.len = Some(Len(call.ret.elems))
        /\ faces = Faces_empty => call.ret.elems = <<>>
        /\ faces = Faces_all => call.ret.elems = CanonicalNames

C10_Witness ==
    /\ call.op = "serialize"
    /\ call.arg = TRUE
    /\ faces = Faces_all
    /\ call.ret = SeqWire(Some(6), CanonicalNames)

\* the strings that occur in a list
Range(seq) == {seq[i] : i \in 1..Len(seq)}

\* the list back to front
Reverse(seq) == [i \in 1..Len(seq) |-> seq[Len(seq) + 1 - i]]

\* a human-form decoding has returned
HumanDecoded == Returned("deserialize") /\ call.arg.human

\* C11: human-form decoding of a list of valid names depends only on the set
\* of names present: the result has exactly the flags whose names occur, and
\* the reversed list and the list with its first name repeated decode to the
\* same value; the empty list decodes to Faces::empty().
C11_HumanDecodeBySet ==
    (HumanDecoded /\ Range(call.arg.wire.elems) \subseteq FaceNames) =>
        LET elems == call.arg.wire.elems
        IN  /\ call.ret.ok
            /\ call.ret.value \in 0..63
            /\ \A name \in FaceNames :
                  field_get(call.ret.value, name) <=> name \in Range(elems)
            /\ visit_seq(Reverse(elems)) = call.ret
            /\ elems # <<>> => visit_seq(<<elems[1]>> \o elems) = call.ret
            /\ elems = <<>> => call.ret = Ok(Faces_empty)

C11_Witness ==
    /\ HumanDecoded
    /\ call.arg.wire.elems = <<"Front", "Right", "Front">>
    /\ call.ret = Ok(33)

\* the first string of a list that is not one of the six names
FirstInvalid(seq) ==
    seq[CHOOSE i \in 1..Len(seq) :
            /\ seq[i] \notin FaceNames
            /\ \A j \in 1..(i - 1) : seq[j] \in FaceNames]

\* C12: human-form decoding of a list that contains a string other than the
\* six case-sensitive names fails with an error naming that string, whatever
\* valid names come before or after it.
C12_HumanDecodeRejects ==
    (HumanDecoded /\ ~(Range(call.arg.wire.elems) \subseteq FaceNames)) =>
        /\ ~call.ret.ok
        /\ call.ret.error =
              Custom(<<"invalid face '", FirstInvalid(call.arg.wire.elems), "'">>)

C12_Witness ==
    /\ HumanDecoded
    /\ call.arg.wire.elems = <<"Right", "right", "Top">>
    /\ call.ret = Err(Custom(<<"invalid face '", "right", "'">>))

\* C13: applying a composed transform A * B to a vector equals applying B to
\* the vector and then A to the result, (A * B) * v = A * (B * v), for the
\* 24 axis-aligned rotations with whole-number positions and vectors.
C13_ComposeThenApply ==
    Returned("cframe_mul") =>
        \A v \in PointSamples :
            CFrame_mul_vector(call.ret, v) =
                CFrame_mul_vector(call.arg.self, CFrame_mul_vector(call.arg.rhs, v))

Vector3Add(a, b) == Vector3(Fadd(a.x, b.x), Fadd(a.y, b.y), Fadd(a.z, b.z))

\* C14: a point conversion includes the translation and a free-vector
\* conversion is the rotation only: point_to_world_space(v) equals
\* vector_to_world_space(v) + position, and vector_to_world_space(v) is the
\* same whatever the position is.
C14_PointAddsTranslation ==
    Returned("point_to_world_space") =>
        LET T == call.arg.self
            v == call.arg.v3
        IN  /\ call.ret = Vector3Add(vector_to_world_space(T, v), T.position)
            /\ \A p \in PositionSamples :
                  vector_to_world_space(CFrame(p, T.orientation), v) =
                      vector_to_world_space(T, v)

C17_UDimLerpEndpoints ==
    (Returned("udim_lerp") \/ Returned("udim2_lerp")) =>
        /\ call.arg.alpha = 0 => call.ret = call.arg.self
        /\ call.arg.alpha = One => call.ret = call.arg.goal

\* C18: the Lerp method of Color3 returns the receiver at alpha 0 and the
\* argument colour at alpha 1, exactly in every channel.
C18_Color3LerpEndpoints ==
    Returned("color3_lerp") =>
        /\ call.arg.alpha = 0 => call.ret = call.arg.this
        /\ call.arg.alpha = One => call.ret = call.arg.color

\* C19: CFrame::lerp returns the receiver at alpha 0 and the goal at alpha 1
\* field for field, whether or not their orientations are orthonormal; for
\* any other alpha the position is interpolated linearly.
C19_CFrameLerpEndpoints ==
    Returned("cframe_lerp") =>
        LET A == call.arg.self
            B == call.arg.goal
            alpha == call.arg.alpha
        IN  /\ alpha = 0 => call.ret = A
            /\ alpha = One => call.ret = B
            /\ alpha \notin {0, One} =>
                  /\ call.ret.orientation = identity
                  /\ call.ret.position =
                        Vector3(Fadd(A.position.x, Fmul(alpha, Fsub(B.position.x, A.position.x))),
                                Fadd(A.position.y, Fmul(alpha, Fsub(B.position.y, A.position.y))),
                                Fadd(A.position.z, Fmul(alpha, Fsub(B.position.z, A.position.z))))

C19_Witness ==
    /\ Returned("cframe_lerp")
    /\ call.arg.alpha = One
    /\ call.arg.self.orientation \in SkewSamples
    /\ call.arg.goal.orientation \in SkewSamples
    /\ call.arg.goal # call.arg.self
    /\ call.ret = call.arg.goal

\* the columns of a matrix are orthonormal
IsOrthonormal(m) == na_mul(na_transpose(na_Matrix3_from(m)), na_Matrix3_from(m)) = na_identity

\* C20: Matrix3::orthonormalize returns a matrix with orthonormal columns
\* unchanged, in particular the identity and each of the 24 basic rotation
\* matrices.
C20_OrthonormalUnchanged ==
    (Returned("orthonormalize") /\ IsOrthonormal(call.arg)) => call.ret = call.arg

(***************************************************************************)
(* Color3 and Color3uint8.  The conversions divide and multiply by 255,    *)
(* which is not exact in f32, so a channel is kept here as a significand   *)
(* and an exponent: Num(m, e) is m * 2^e with |m| <= 2^24, and a result    *)
(* that needs more than 24 bits is rounded to nearest, ties to even.       *)
(***************************************************************************)
Num(m, e) == [kind |-> "num", m |-> m, e |-> e]

FNaN == [kind |-> "nan", m |-> 0, e |-> 0]

FInf(sign) == [kind |-> "inf", m |-> sign, e |-> 0]

\* a finite value above 1.0, for a value that is not negative
GreaterThanOne(v) ==
    IF v.e >= 0 THEN v.m >= 2 \/ (v.m = 1 /\ v.e > 0)
    ELSE IF -v.e > 24 THEN FALSE
    ELSE v.m > 2^(-v.e)

\* value.max(0.0): the operand that is not NaN, else the larger
f32_max_zero(v) ==
    IF v.kind = "nan" THEN Num(0, 0)
    ELSE IF v.m < 0 THEN Num(0, 0)
    ELSE v

\* value.min(1.0)
f32_min_one(v) ==
    IF v.kind = "nan" THEN Num(1, 0)
    ELSE IF v.kind = "inf" THEN (IF v.m > 0 THEN Num(1, 0) ELSE v)
    ELSE IF v.m >= 0 /\ GreaterThanOne(v) THEN Num(1, 0)
    ELSE v

\* value * 255.0 for a finite value that is not negative.  The product of
\* the significand is formed in two halves of 12 bits, then the low d bits
\* are dropped, rounding to nearest and ties to even.
f32_mul_255(v) ==
    LET lo == (v.m % Grain) * 255
        hi == (v.m \div Grain) * 255 + (lo \div Grain)
        low == lo % Grain
        d == CHOOSE k \in 0..8 : hi < 2^(12 + k) /\ \A j \in 0..(k - 1) : hi >= 2^(12 + j)
        kept == hi * 2^(12 - d) + (low \div 2^d)
        rem == low % 2^d
        up == d > 0 /\ (2 * rem > 2^d \/ (2 * rem = 2^d /\ kept % 2 = 1))
    IN  Num(IF up THEN kept + 1 ELSE kept, v.e + d)

\* mutant: the fraction is cut off
round_as_u8_truncating(v) ==
    IF v.kind = "nan" THEN 0
    ELSE IF v.kind = "inf" THEN (IF v.m > 0 THEN 255 ELSE 0)
    ELSE IF v.m <= 0 THEN 0
    ELSE IF v.e >= 0 THEN (IF v.m >= 256 \/ v.e >= 8 \/ v.m * 2^v.e >= 255 THEN 255 ELSE v.m * 2^v.e)
    ELSE IF -v.e > 24 THEN 0
    ELSE IF v.m \div 2^(-v.e) >= 255 THEN 255 ELSE v.m \div 2^(-v.e)

\* value.round() as u8: to the nearest whole number, halves away from zero,
\* then the cast, which saturates at 0 and 255 and sends NaN to 0
round_as_u8(v) ==
    IF v.kind = "nan" THEN 0
    ELSE IF v.kind = "inf" THEN (IF v.m > 0 THEN 255 ELSE 0)
    ELSE IF v.m <= 0 THEN 0
    ELSE IF v.e >= 0 THEN (IF v.m >= 256 \/ v.e >= 8 \/ v.m * 2^v.e >= 255 THEN 255 ELSE v.m * 2^v.e)
    ELSE IF -v.e > 25 THEN 0
    ELSE LET rounded == (v.m + 2^(-v.e - 1)) \div 2^(-v.e)
         IN  IF rounded >= 255 THEN 255 ELSE rounded

Color3uint8(r, g, b) == [r |-> r, g |-> g, b |-> b]

\* one channel of From<Color3> for Color3uint8
channel_to_u8(value) == round_as_u8(f32_mul_255(f32_min_one(f32_max_zero(value))))

\* From<Color3> for Color3uint8
Color3uint8_from(value) ==
    Color3uint8(channel_to_u8(value.r), channel_to_u8(value.g), channel_to_u8(value.b))

\* mutant: the divisor is 256
u8_as_f32_div_256(value) == Num(value, -8)

\* value as f32 / 255.0 for a byte.  The quotient has 24 significant bits:
\* the dividend is shifted left by 16 + j bits, j the least shift that
\* makes the quotient reach 2^23, and divided in two steps; the remainder
\* decides the rounding (it is never a tie, 255 being odd).
u8_as_f32_div_255(value) ==
    IF value = 0 THEN Num(0, 0)
    ELSE LET j == CHOOSE k \in 7..15 :
                      value * 2^k >= 255 * 2^7 /\ \A i \in 7..(k - 1) : value * 2^i < 255 * 2^7
             q1 == (value * 2^16) \div 255
             r1 == (value * 2^16) % 255
             q2 == (r1 * 2^j) \div 255
             r2 == (r1 * 2^j) % 255
             q == q1 * 2^j + q2
         IN  Num(IF 2 * r2 > 255 THEN q + 1 ELSE q, -(16 + j))

\* From<Color3uint8> for Color3
Color3_from_uint8(value) ==
    Color3(u8_as_f32_div_255(value.r), u8_as_f32_div_255(value.g), u8_as_f32_div_255(value.b))

\* the channels converted to bytes: the multiples of 2^-9 from -1 to 2, the
\* infinities and NaN
ChannelInputs ==
    {Num(k, -9) : k \in (-(2^9))..(2^10)} \cup {FNaN, FInf(1), FInf(-1)}

Color3Inputs ==
    [r : ChannelInputs, g : {Num(1, -1), Num(-1, 0)}, b : {Num(2, 0), Num(1, 0)}]

Color3uint8Inputs == [r : U8, g : {0, 128, 255}, b : {1, 254}]

\* Color3uint8::from(Color3)
CallColor3uint8From ==
    /\ call.op = "color3uint8_from" /\ ~call.done
    /\ Return(Color3uint8_from(call.arg))
    /\ UNCHANGED faces

\* Color3::from(Color3uint8)
CallColor3FromUint8 ==
    /\ call.op = "color3_from_uint8" /\ ~call.done
    /\ Return(Color3_from_uint8(call.arg))
    /\ UNCHANGED faces

InitColor ==
    /\ call \in {Pending("color3uint8_from", c) : c \in Color3Inputs}
          \cup {Pending("color3_from_uint8", c) : c \in Color3uint8Inputs}
    /\ faces = 0

NextColor ==
    \/ CallColor3uint8From
    \/ CallColor3FromUint8

SpecColor == InitColor /\ [][NextColor]_vars

(***************************************************************************)
(* Claims about Color3uint8                                                *)
(***************************************************************************)
ChannelNames == {"r", "g", "b"}

\* a finite sample in units of 2^-9
InUnits(c) == c.m * 2^(c.e + 9)

\* C21: the conversion of a Color3 to bytes clamps each channel to [0, 1] and
\* rounds channel * 255 to the nearest integer, halves away from zero: every
\* channel <= 0 gives 0, every channel >= 1 gives 255, a channel between is
\* within one half of channel * 255, and (-1.0, 0.5, 2.0) gives (0, 128, 255).
C21_ClampThenRound ==
    Returned("color3uint8_from") =>
        /\ \A ch \in ChannelNames :
              LET c == call.arg[ch]
                  byte == call.ret[ch]
              IN  /\ byte \in U8
                  /\ (c.kind = "inf" /\ c.m < 0) => byte = 0
                  /\ (c.kind = "inf" /\ c.m > 0) => byte = 255
                  /\ (c.kind = "num" /\ InUnits(c) <= 0) => byte = 0
                  /\ (c.kind = "num" /\ InUnits(c) >= 2^9) => byte = 255
                  /\ (c.kind = "num" /\ InUnits(c) \in 0..(2^9)) =>
                        (255 * InUnits(c) - byte * 2^9) \in (-(2^8))..(2^8 - 1)
        /\ call.arg = Color3(Num(-1, 0), Num(1, -1), Num(2, 0)) =>
              call.ret = Color3uint8(0, 128, 255)

C21_Witness ==
    /\ Returned("color3uint8_from")
    /\ call.arg = Color3(Num(-(2^9), -9), Num(1, -1), Num(2, 0))
    /\ call.ret = Color3uint8(0, 128, 255)

(***************************************************************************)
(* The tuple encoding.  serde_tuple! lists, for each type, its fields and  *)
(* their types; a value is written as the sequence of its fields in that   *)
(* order, a field of a listed type as a nested sequence, and read back     *)
(* from a sequence of exactly that length.  A wire value is a sequence, a  *)
(* floating-point number or an integer.                                    *)
(***************************************************************************)
TupleWire(elems) == [t |-> "seq", elems |-> elems]

FloatWire(value) == [t |-> "float", float |-> value]

IntWire(value) == [t |-> "int", int |-> value]

IntTypes == {"i16", "u8", "i32"}

\* the values of an integer type
IntRange(type) ==
    CASE type = "i16" -> (-32768)..32767
      [] type = "u8" -> 0..255
      [] type = "i32" -> (-2147483647 - 1)..2147483647

Field(name, type) == <<name, type>>

\* the fields of the struct declarations, in declaration order
StructFields(type) ==
    CASE type = "Vector2" -> <<"x", "y">>
      [] type = "Vector2int16" -> <<"x", "y">>
      [] type = "Vector3" -> <<"x", "y", "z">>
      [] type = "Vector3int16" -> <<"x", "y", "z">>
      [] type = "Color3" -> <<"r", "g", "b">>
      [] type = "Color3uint8" -> <<"r", "g", "b">>
      [] type = "UDim" -> <<"scale", "offset">>
      [] type = "UDim2" -> <<"x", "y">>
      [] type = "NumberRange" -> <<"min", "max">>
      [] type = "Rect" -> <<"min", "max">>
      [] type = "Region3" -> <<"min", "max">>
      [] type = "Region3int16" -> <<"min", "max">>
      [] type = "Matrix3" -> <<"x", "y", "z">>

\* mutant: the two axes of UDim2 are listed in the other order
TupleFields_exchanged(type) ==
    CASE type = "Vector2" -> <<Field("x", "f32"), Field("y", "f32")>>
      [] type = "Vector2int16" -> <<Field("x", "i16"), Field("y", "i16")>>
      [] type = "Vector3" -> <<Field("x", "f32"), Field("y", "f32"), Field("z", "f32")>>
      [] type = "Vector3int16" -> <<Field("x", "i16"), Field("y", "i16"), Field("z", "i16")>>
      [] type = "Color3" -> <<Field("r", "f32"), Field("g", "f32"), Field("b", "f32")>>
      [] type = "Color3uint8" -> <<Field("r", "u8"), Field("g", "u8"), Field("b", "u8")>>
      [] type = "UDim" -> <<Field("scale", "f32"), Field("offset", "i32")>>
      [] type = "UDim2" -> <<Field("y", "UDim"), Field("x", "UDim")>>
      [] type = "NumberRange" -> <<Field("min", "f32"), Field("max", "f32")>>
      [] type = "Rect" -> <<Field("min", "Vector2"), Field("max", "Vector2")>>
      [] type = "Region3" -> <<Field("min", "Vector3"), Field("max", "Vector3")>>
      [] type = "Region3int16" ->
            <<Field("min", "Vector3int16"), Field("max", "Vector3int16")>>
      [] type = "Matrix3" ->
            <<Field("x", "Vector3"), Field("y", "Vector3"), Field("z", "Vector3")>>

\* the invocation of serde_tuple!
TupleFields(type) ==
    CASE type = "Vector2" -> <<Field("x", "f32"), Field("y", "f32")>>
      [] type = "Vector2int16" -> <<Field("x", "i16"), Field("y", "i16")>>
      [] type = "Vector3" -> <<Field("x", "f32"), Field("y", "f32"), Field("z", "f32")>>
      [] type = "Vector3int16" -> <<Field("x", "i16"), Field("y", "i16"), Field("z", "i16")>>
      [] type = "Color3" -> <<Field("r", "f32"), Field("g", "f32"), Field("b", "f32")>>
      [] type = "Color3uint8" -> <<Field("r", "u8"), Field("g", "u8"), Field("b", "u8")>>
      [] type = "UDim" -> <<Field("scale", "f32"), Field("offset", "i32")>>
      [] type = "UDim2" -> <<Field("x", "UDim"), Field("y", "UDim")>>
      [] type = "NumberRange" -> <<Field("min", "f32"), Field("max", "f32")>>
      [] type = "Rect" -> <<Field("min", "Vector2"), Field("max", "Vector2")>>
      [] type = "Region3" -> <<Field("min", "Vector3"), Field("max", "Vector3")>>
      [] type = "Region3int16" ->
            <<Field("min", "Vector3int16"), Field("max", "Vector3int16")>>
      [] type = "Matrix3" ->
            <<Field("x", "Vector3"), Field("y", "Vector3"), Field("z", "Vector3")>>

TupleTypes ==
    {"Vector2", "Vector2int16", "Vector3", "Vector3int16", "Color3", "Color3uint8",
     "UDim", "UDim2", "NumberRange", "Rect", "Region3", "Region3int16", "Matrix3"}

RECURSIVE tuple_serialize(_, _)

\* Serialize for a type of serde_tuple!: the fields in the listed order
tuple_serialize(type, value) ==
    LET fields == TupleFields(type)
    IN  TupleWire([i \in 1..Len(fields) |->
            LET name == fields[i][1]
                ftype == fields[i][2]
            IN  IF ftype = "f32" THEN FloatWire(value[name])
                ELSE IF ftype \in IntTypes THEN IntWire(value[name])
                ELSE tuple_serialize(ftype, value[name])])

InvalidType(wire, expected) == <<"invalid type", wire.t, expected>>

InvalidLength(len, expected) == <<"invalid length", len, expected>>

RECURSIVE tuple_deserialize(_, _)

\* Deserialize for a type of serde_tuple!: a sequence of exactly the listed
\* length, each element read as its field; the first failure is the error
tuple_deserialize(type, wire) ==
    LET fields == TupleFields(type)
        n == Len(fields)
    IN  IF wire.t # "seq" THEN Err(InvalidType(wire, type))
        ELSE IF Len(wire.elems) # n THEN Err(InvalidLength(Len(wire.elems), n))
        ELSE LET read == [i \in 1..n |->
                     LET ftype == fields[i][2]
                         w == wire.elems[i]
                     IN  IF ftype = "f32"
                         THEN IF w.t = "float" THEN Ok(w.float)
                              ELSE IF w.t = "int" THEN Ok(i32_as_f32(w.int))
                              ELSE Err(InvalidType(w, ftype))
                         ELSE IF ftype \in IntTypes
                         THEN IF w.t = "int" /\ w.int \in IntRange(ftype) THEN Ok(w.int)
                              ELSE Err(InvalidType(w, ftype))
                         ELSE tuple_deserialize(ftype, w)]
                 bad == {i \in 1..n : ~read[i].ok}
             IN  IF bad # {}
                 THEN read[CHOOSE i \in bad : \A j \in bad : i <= j]
                 ELSE Ok([name \in {fields[i][1] : i \in 1..n} |->
                             read[CHOOSE i \in 1..n : fields[i][1] = name].value])

F32Fields == {-One, Half, 2 * One}

I16Fields == {-32768, 0, 32767}

U8Fields == {0, 128, 255}

I32Fields == {-2147483647 - 1, 175, 2147483647}

\* the values encoded, for each type
TupleValues(type) ==
    CASE type = "Vector2" -> [x : F32Fields, y : F32Fields]
      [] type = "Vector2int16" -> [x : I16Fields, y : I16Fields]
      [] type = "Vector3" -> [x : F32Fields, y : F32Fields, z : F32Fields]
      [] type = "Vector3int16" -> [x : I16Fields, y : I16Fields, z : I16Fields]
      [] type = "Color3" -> [r : F32Fields, g : F32Fields, b : F32Fields]
      [] type = "Color3uint8" -> [r : U8Fields, g : U8Fields, b : U8Fields]
      [] type = "UDim" -> [scale : F32Fields, offset : I32Fields]
      [] type = "UDim2" ->
            [x : [scale : F32Fields, offset : I32Fields],
             y : [scale : F32Fields, offset : I32Fields]]
      [] type = "NumberRange" -> [min : F32Fields, max : F32Fields]
      [] type = "Rect" ->
            [min : [x : F32Fields, y : F32Fields], max : [x : F32Fields, y : F32Fields]]
      [] type = "Region3" ->
            [min : [x : {-One}, y : {Half, -One}, z : F32Fields],
             max : [x : F32Fields, y : {Half}, z : {2 * One, Half}]]
      [] type = "Region3int16" ->
            [min : [x : {0}, y : {-32768, 7}, z : I16Fields],
             max : [x : I16Fields, y : {7}, z : {32767, 0}]]
      [] type = "Matrix3" ->
            [x : [x : {-One, Half}, y : {-One, Half}, z : {-One, Half}],
             y : [x : {-One, Half}, y : {-One, Half}, z : {-One, Half}],
             z : [x : {-One, Half}, y : {-One, Half}, z : {-One, Half}]]

\* sequences that are not the encoding of a value: one element short, one
\* element long, and the first element replaced by an empty sequence
Malformed(wire) ==
    {TupleWire(SubSeq(wire.elems, 1, Len(wire.elems) - 1)),
     TupleWire(Append(wire.elems, IntWire(0))),
     TupleWire(<<TupleWire(<<>>)>> \o Tail(wire.elems))}

\* Serialize::serialize for a tuple-encoded type
CallTupleSerialize ==
    /\ call.op = "tuple_serialize" /\ ~call.done
    /\ Return(tuple_serialize(call.arg.type, call.arg.value))
    /\ UNCHANGED faces

\* Deserialize::deserialize for a tuple-encoded type
CallTupleDeserialize ==
    /\ call.op = "tuple_deserialize" /\ ~call.done
    /\ Return(tuple_deserialize(call.arg.type, call.arg.wire))
    /\ UNCHANGED faces

TupleCalls(type) ==
    {Pending("tuple_serialize", [type |-> type, value |-> value]) :
        value \in TupleValues(type)}
    \cup {Pending("tuple_deserialize", [type |-> type, wire |-> wire]) :
            wire \in UNION {{tuple_serialize(type, value)}
                               \cup Malformed(tuple_serialize(type, value)) :
                            value \in TupleValues(type)}}

InitTuple ==
    /\ \E type \in TupleTypes : call \in TupleCalls(type)
    /\ faces = 0

NextTuple ==
    \/ CallTupleSerialize
    \/ CallTupleDeserialize

SpecTuple == InitTuple /\ [][NextTuple]_vars

(***************************************************************************)
(* Claims about the tuple encoding                                         *)
(***************************************************************************)
\* the type of the fields of a type whose fields are themselves encoded
NestedIn(type) ==
    CASE type = "UDim2" -> "UDim"
      [] type = "Rect" -> "Vector2"
      [] type = "Region3" -> "Vector3"
      [] type = "Region3int16" -> "Vector3int16"
      [] type = "Matrix3" -> "Vector3"

\* what a wire value carries: a number, or the sequence of what its elements
\* carry
Carried(w) ==
    IF w.t = "float" THEN w.float
    ELSE IF w.t = "int" THEN w.int
    ELSE [i \in 1..Len(w.elems) |->
             LET e == w.elems[i]
             IN  IF e.t = "float" THEN e.float ELSE IF e.t = "int" THEN e.int ELSE e.elems]

\* the field values of a value in the order of the struct declaration
InDeclarationOrder(type, value) ==
    [i \in 1..Len(StructFields(type)) |-> value[StructFields(type)[i]]]

\* C22: a tuple-encoded value is written as the sequence of its fields in
\* declaration order, nested for fields that are themselves tuple-encoded
\* (Vector2 as [x, y], UDim2 as [[x.scale, x.offset], [y.scale, y.offset]],
\* Matrix3 as its rows x, y, z), and reading the encoding back gives a value
\* equal to the original.
C22_TupleRoundTrip ==
    Returned("tuple_serialize") =>
        LET type == call.arg.type
            value == call.arg.value
            wire == call.ret
        IN  /\ wire.t = "seq"
            /\ Len(wire.elems) = Len(StructFields(type))
            /\ type \notin {"UDim2", "Rect", "Region3", "Region3int16", "Matrix3"} =>
                  Carried(wire) = InDeclarationOrder(type, value)
            /\ type \in {"UDim2", "Rect", "Region3", "Region3int16", "Matrix3"} =>
                  [i \in 1..Len(wire.elems) |-> Carried(wire.elems[i])] =
                  [i \in 1..Len(wire.elems) |->
                      InDeclarationOrder(NestedIn(type), InDeclarationOrder(type, value)[i])]
            /\ type = "Vector2" => wire = TupleWire(<<FloatWire(value.x), FloatWire(value.y)>>)
            /\ type = "UDim" =>
                  wire = TupleWire(<<FloatWire(value.scale), IntWire(value.offset)>>)
            /\ type = "UDim2" =>
                  wire = TupleWire(<<
                      TupleWire(<<FloatWire(value.x.scale), IntWire(value.x.offset)>>),
                      TupleWire(<<FloatWire(value.y.scale), IntWire(value.y.offset)>>)>>)
            /\ type = "Matrix3" =>
                  wire = TupleWire(<<
                      TupleWire(<<FloatWire(value.x.x), FloatWire(value.x.y), FloatWire(value.x.z)>>),
                      TupleWire(<<FloatWire(value.y.x), FloatWire(value.y.y), FloatWire(value.y.z)>>),
                      TupleWire(<<FloatWire(value.z.x), FloatWire(value.z.y), FloatWire(value.z.z)>>)>>)
            /\ tuple_deserialize(type, wire) = Ok(value)

C22_Witness ==
    /\ Returned("tuple_serialize")
    /\ call.arg.type = "UDim2"
    /\ call.arg.value = UDim2(UDim(Half, 175), UDim(-One, 0 - 2147483647 - 1))
    /\ call.ret = TupleWire(<<TupleWire(<<FloatWire(Half), IntWire(175)>>),
                              TupleWire(<<FloatWire(-One), IntWire(0 - 2147483647 - 1)>>)>>)
    /\ tuple_deserialize("UDim2", call.ret) = Ok(call.arg.value)

(***************************************************************************)
(* Region3                                                                 *)
(***************************************************************************)
\* a / b for a whole number or a power of two b that is not 0.  The quotient
\* by a whole number is rounded to the nearest multiple of 2^-24; f32 rounds
\* it to 24 significant bits instead, which leaves its floor the same for
\* the whole-number dividends used here.
Fdiv(a, b) ==
    LET quotient[x \in Int, y \in Int] ==
            IF IsNaN(x) \/ IsNaN(y) THEN NaN
            ELSE IF y = Inf \/ y = -Inf THEN 0
            ELSE IF IsWhole(y) /\ y > 0
                 THEN (2 * x + (y \div One)) \div (2 * (y \div One))
            ELSE IF IsWhole(y) /\ y < 0
                 THEN (2 * (-x) + ((-y) \div One)) \div (2 * ((-y) \div One))
            ELSE IF y > 0 THEN Fmul(x, Frecip(y))
            ELSE Fneg(Fmul(x, Frecip(-y)))
    IN  quotient[a, b]

\* value.floor()
f32_floor(value) == IF IsNaN(value) THEN NaN ELSE (value \div One) * One

\* f32::is_normal: neither zero, infinite, subnormal nor NaN (no sample is
\* subnormal)
is_normal(value) == ~IsNaN(value) /\ value # 0 /\ value # Inf /\ value # -Inf

\* Div<f32> for Vector3
Vector3_div(self, rhs) == Vector3(Fdiv(self.x, rhs), Fdiv(self.y, rhs), Fdiv(self.z, rhs))

Region3(min, max) == [min |-> min, max |-> max]

\* Region3::expand_to_grid
expand_to_grid(self, resolution) ==
    IF ~is_normal(resolution) THEN None
    ELSE LET min == Vector3_div(self.min, resolution)
             max == Vector3_div(self.max, resolution)
         IN  Some(Region3(Vector3(Fmul(f32_floor(min.x), resolution),
                                  Fmul(f32_floor(min.y), resolution),
                                  Fmul(f32_floor(min.z), resolution)),
                          Vector3(Fmul(f32_floor(max.x), resolution),
                                  Fmul(f32_floor(max.y), resolution),
                                  Fmul(f32_floor(max.z), resolution))))

\* LuaError::external
External(msg) == [kind |-> "external", msg |-> msg]

\* the Lua method ExpandToGrid of Region3
Region3_ExpandToGrid(this, resolution) ==
    LET r == expand_to_grid(this, resolution)
    IN  IF IsSome(r) THEN Ok(Unwrap(r))
        ELSE Err(External("Resolution has to be a positive number"))

RegionCoordSamples == {k * One : k \in {-3, -1, 0, 1, 2}}

Region3Samples ==
    [min : [x : RegionCoordSamples, y : {0}, z : {-One}],
     max : [x : RegionCoordSamples, y : {One}, z : {3 * One}]]

ResolutionSamples == {-2 * One, -One, -Half, 0, Half, One, 2 * One, 3 * One, Inf, -Inf, NaN}

\* Region3::expand_to_grid
CallExpandToGrid ==
    /\ call.op = "expand_to_grid" /\ ~call.done
    /\ Return(expand_to_grid(call.arg.self, call.arg.resolution))
    /\ UNCHANGED faces

\* Region3:ExpandToGrid
CallLuaExpandToGrid ==
    /\ call.op = "ExpandToGrid" /\ ~call.done
    /\ Return(Region3_ExpandToGrid(call.arg.self, call.arg.resolution))
    /\ UNCHANGED faces

InitRegion3 ==
    /\ call \in {Pending(op, [self |-> g, resolution |-> r]) :
                    op \in {"expand_to_grid", "ExpandToGrid"},
                    g \in Region3Samples, r \in ResolutionSamples}
    /\ faces = 0

NextRegion3 ==
    \/ CallExpandToGrid
    \/ CallLuaExpandToGrid

SpecRegion3 == InitRegion3 /\ [][NextRegion3]_vars

(***************************************************************************)
(* Claims about Region3                                                    *)
(***************************************************************************)
\* a resolution that is zero or negative
NonPositive(r) == ~IsNaN(r) /\ r # Inf /\ r <= 0

\* C23: expand_to_grid returns None for every resolution that is zero or
\* negative, which the scripting method reports as the error "Resolution has
\* to be a positive number"; it returns Some only for positive resolutions.
C23_RejectsNonPositive ==
    /\ Returned("expand_to_grid") =>
          /\ NonPositive(call.arg.resolution) => call.ret = None
          /\ IsSome(call.ret) => ~IsNaN(call.arg.resolution) /\ call.arg.resolution > 0
    /\ Returned("ExpandToGrid") =>
          /\ NonPositive(call.arg.resolution) =>
                call.ret = Err(External("Resolution has to be a positive number"))
          /\ call.ret.ok => ~IsNaN(call.arg.resolution) /\ call.arg.resolution > 0

\* every coordinate of a vector is a whole multiple of r, for whole-number
\* coordinates and a positive r that is a whole number or one half
Aligned(v, r) ==
    \A c \in {v.x, v.y, v.z} :
        IF IsWhole(r) THEN IsWhole(c) /\ (c \div One) % (r \div One) = 0
        ELSE c % r = 0

\* C27: for a positive resolution r the region returned by expand_to_grid
\* contains the given region and is aligned to the grid: result.min <= min
\* and result.max >= max in each coordinate, and every coordinate of the
\* result is a whole multiple of r.
C27_ExpandContainsAndAligns ==
    (/\ Returned("expand_to_grid")
     /\ ~IsNaN(call.arg.resolution) /\ call.arg.resolution # Inf
     /\ call.arg.resolution > 0) =>
        /\ IsSome(call.ret)
        /\ LET g == call.arg.self
               result == Unwrap(call.ret)
               r == call.arg.resolution
           IN  /\ result.min.x <= g.min.x /\ result.min.y <= g.min.y /\ result.min.z <= g.min.z
               /\ result.max.x >= g.max.x /\ result.max.y >= g.max.y /\ result.max.z >= g.max.z
               /\ Aligned(result.min, r) /\ Aligned(result.max, r)

(***************************************************************************)
(* CFrame: YXZ Euler angles and axis-angle.  A call that panics yields     *)
(* Panic(message) in place of a value.                                     *)
(***************************************************************************)
Panic(msg) == [kind |-> "panic", msg |-> msg]

IsPanic(r) == "kind" \in DOMAIN r /\ r.kind = "panic"

\* CFrame::from_euler_angles_yxz
from_euler_angles_yxz(rx, ry, rz) ==
    Panic(<<"not yet implemented: from_euler_angles_yxz(", rx, ry, rz,
            "): No implementation provided by nalgebra...">>)

\* CFrame::to_euler_angles_yxz
to_euler_angles_yxz(self) ==
    Panic(<<"not yet implemented: to_euler_angles_yxz(): No implementation provided by nalgebra...">>)

\* the Lua methods ToEulerAnglesYXZ and ToOrientation of CFrame: Ok of the
\* value, when there is one
CFrame_ToEulerAnglesYXZ(this) ==
    LET r == to_euler_angles_yxz(this)
    IN  IF IsPanic(r) THEN r ELSE Ok(r)

CFrame_ToOrientation(this) ==
    LET r == to_euler_angles_yxz(this)
    IN  IF IsPanic(r) THEN r ELSE Ok(r)

\* the angle whose cosine is given, kept as that cosine
Acos(cosine) == [acos |-> cosine]

\* na::Rotation3::axis_angle: the axis is the normalised vector of the
\* differences across the diagonal and None when that vector is zero; the
\* angle is the arc cosine of (trace - 1) / 2
Rotation3_axis_angle(rot) ==
    LET axis == <<Fadd(rot[3][2], Fneg(rot[2][3])),
                  Fadd(rot[1][3], Fneg(rot[3][1])),
                  Fadd(rot[2][1], Fneg(rot[1][2]))>>
        norm == Fsqrt(Fadd(Fadd(Fmul(axis[1], axis[1]), Fmul(axis[2], axis[2])),
                           Fmul(axis[3], axis[3])))
        trace == Fadd(Fadd(rot[1][1], rot[2][2]), rot[3][3])
    IN  IF norm = 0 THEN None
        ELSE Some(<<[i \in 1..3 |-> Fdiv(axis[i], norm)],
                    Acos(Fdiv(Fadd(trace, Fneg(One)), 2 * One))>>)

\* CFrame::to_axis_angle
to_axis_angle(self) ==
    LET r == Rotation3_axis_angle(Rotation3_from_matrix(na_Matrix3_from(self.orientation)))
    IN  IF ~IsSome(r) THEN Panic(<<"axis angle should not be zero">>)
        ELSE <<Vector3_from_na(Unwrap(r)[1]), Unwrap(r)[2]>>

\* the rotations by a quarter and by a half turn about a coordinate axis,
\* and the identity
AxisTurnSamples ==
    {m \in RotationSamples :
        \E i \in 1..3 : na_Matrix3_from(m)[i][i] = One}

AngleSamples == {0, Half, -One}

CallFromEulerAnglesYXZ ==
    /\ call.op = "from_euler_angles_yxz" /\ ~call.done
    /\ Return(from_euler_angles_yxz(call.arg.rx, call.arg.ry, call.arg.rz))
    /\ UNCHANGED faces

CallToEulerAnglesYXZ ==
    /\ call.op = "to_euler_angles_yxz" /\ ~call.done
    /\ Return(to_euler_angles_yxz(call.arg.self))
    /\ UNCHANGED faces

CallLuaToEulerAnglesYXZ ==
    /\ call.op = "ToEulerAnglesYXZ" /\ ~call.done
    /\ Return(CFrame_ToEulerAnglesYXZ(call.arg.self))
    /\ UNCHANGED faces

CallLuaToOrientation ==
    /\ call.op = "ToOrientation" /\ ~call.done
    /\ Return(CFrame_ToOrientation(call.arg.self))
    /\ UNCHANGED faces

CallToAxisAngle ==
    /\ call.op = "to_axis_angle" /\ ~call.done
    /\ Return(to_axis_angle(call.arg.self))
    /\ UNCHANGED faces

InitAngles ==
    /\ call \in {Pending("from_euler_angles_yxz", [rx |-> rx, ry |-> ry, rz |-> rz]) :
                    rx \in AngleSamples, ry \in AngleSamples, rz \in AngleSamples}
          \cup {Pending(op, [self |-> cf]) :
                    op \in {"to_euler_angles_yxz", "ToEulerAnglesYXZ", "ToOrientation"},
                    cf \in CFrameSamples}
          \cup {Pending("to_axis_angle", [self |-> CFrame(p, m)]) :
                    p \in PositionSamples, m \in AxisTurnSamples}
    /\ faces = 0

NextAngles ==
    \/ CallFromEulerAnglesYXZ
    \/ CallToEulerAnglesYXZ
    \/ CallLuaToEulerAnglesYXZ
    \/ CallLuaToOrientation
    \/ CallToAxisAngle

SpecAngles == InitAngles /\ [][NextAngles]_vars

(***************************************************************************)
(* Claims about Euler angles and axis-angle                                *)
(***************************************************************************)
YXZOperations ==
    {"from_euler_angles_yxz", "to_euler_angles_yxz", "ToEulerAnglesYXZ", "ToOrientation"}

\* C24: the YXZ Euler-angle operations report that they are unsupported as
\* an error value: no call returns a value and no call panics.
C24_YXZUnsupportedError ==
    (call.op \in YXZOperations /\ call.done) =>
        /\ ~IsPanic(call.ret)
        /\ "ok" \in DOMAIN call.ret
        /\ ~call.ret.ok

\* C25: to_axis_angle of a transform whose orientation is the identity
\* completes with a defined (axis, angle) pair: it does not panic and no
\* component of the result is NaN.
C25_AxisAngleOfIdentity ==
    (Returned("to_axis_angle") /\ call.arg.self.orientation = identity) =>
        /\ ~IsPanic(call.ret)
        /\ ~IsNaN(call.ret[1].x) /\ ~IsNaN(call.ret[1].y) /\ ~IsNaN(call.ret[1].z)
        /\ ~IsNaN(call.ret[2].acos)

(***************************************************************************)
(* PhysicalProperties and its encoding.  Default is <<"Default">>, a       *)
(* custom value is <<"Custom", fields>>.  A human-readable format is given *)
(* a string or a map with named entries; a compact format is given the     *)
(* variant index and the field values in declaration order.                *)
(***************************************************************************)
PhysicalProperties_Default == <<"Default">>

PhysicalProperties_Custom(custom) == <<"Custom", custom>>

CustomPhysicalProperties(density, friction, elasticity, friction_weight, elasticity_weight) ==
    [density |-> density, friction |-> friction, elasticity |-> elasticity,
     friction_weight |-> friction_weight, elasticity_weight |-> elasticity_weight]

\* the fields of CustomPhysicalProperties in declaration order
CustomFields ==
    <<"density", "friction", "elasticity", "friction_weight", "elasticity_weight">>

\* serde(rename_all = "camelCase")
camelCase(name) ==
    CASE name = "friction_weight" -> "frictionWeight"
      [] name = "elasticity_weight" -> "elasticityWeight"
      [] OTHER -> name

StrWire(value) == [t |-> "str", str |-> value]

MapWire(entries) == [t |-> "map", entries |-> entries]

VariantWire(index, content) == [t |-> "variant", index |-> index, content |-> content]

\* the errors of serde::de::Error
invalid_value(unexpected) == [kind |-> "invalid_value", unexpected |-> unexpected]

invalid_type(unexpected) == [kind |-> "invalid_type", unexpected |-> unexpected]

invalid_length(len) == [kind |-> "invalid_length", len |-> len]

missing_field(name) == [kind |-> "missing_field", field |-> name]

duplicate_field(name) == [kind |-> "duplicate_field", field |-> name]

unknown_variant(index) == [kind |-> "unknown_variant", index |-> index]

\* derive(Serialize) for CustomPhysicalProperties
CustomPhysicalProperties_serialize(custom, human_readable) ==
    IF human_readable
    THEN MapWire([i \in 1..Len(CustomFields) |->
                     <<camelCase(CustomFields[i]), FloatWire(custom[CustomFields[i]])>>])
    ELSE TupleWire([i \in 1..Len(CustomFields) |-> FloatWire(custom[CustomFields[i]])])

TaggedPhysicalProperties_Default == [variant |-> "Default"]

TaggedPhysicalProperties_Custom(custom) == [variant |-> "Custom", custom |-> custom]

\* From<PhysicalProperties> for TaggedPhysicalProperties
TaggedPhysicalProperties_from(value) ==
    IF value = PhysicalProperties_Default THEN TaggedPhysicalProperties_Default
    ELSE TaggedPhysicalProperties_Custom(value[2])

\* From<TaggedPhysicalProperties> for PhysicalProperties
PhysicalProperties_from(value) ==
    IF value = TaggedPhysicalProperties_Default THEN PhysicalProperties_Default
    ELSE PhysicalProperties_Custom(value.custom)

\* derive(Serialize) for TaggedPhysicalProperties
TaggedPhysicalProperties_serialize(tagged, human_readable) ==
    IF tagged.variant = "Default" THEN VariantWire(0, None)
    ELSE VariantWire(1, Some(CustomPhysicalProperties_serialize(tagged.custom, human_readable)))

\* mutant: Default is written in lower case
PhysicalProperties_serialize_lower(self, human_readable) ==
    IF human_readable
    THEN IF self = PhysicalProperties_Default THEN StrWire("default")
         ELSE CustomPhysicalProperties_serialize(self[2], human_readable)
    ELSE TaggedPhysicalProperties_serialize(TaggedPhysicalProperties_from(self), human_readable)

\* Serialize for PhysicalProperties
PhysicalProperties_serialize(self, human_readable) ==
    IF human_readable
    THEN IF self = PhysicalProperties_Default THEN StrWire("Default")
         ELSE CustomPhysicalProperties_serialize(self[2], human_readable)
    ELSE TaggedPhysicalProperties_serialize(TaggedPhysicalProperties_from(self), human_readable)

\* the positions of the entries of a map that have a key
EntriesOf(wire, key) == {i \in 1..Len(wire.entries) : wire.entries[i][1] = key}

\* derive(Deserialize) for CustomPhysicalProperties: from a map the entries
\* are found by their names, each exactly once, and others are passed over;
\* from a sequence the fields are read in declaration order
CustomPhysicalProperties_deserialize(wire) ==
    IF wire.t = "map"
    THEN LET keys == [i \in 1..Len(CustomFields) |-> camelCase(CustomFields[i])]
             twice == {i \in 1..Len(keys) : Cardinality(EntriesOf(wire, keys[i])) > 1}
             absent == {i \in 1..Len(keys) : EntriesOf(wire, keys[i]) = {}}
             value(i) == wire.entries[CHOOSE j \in EntriesOf(wire, keys[i]) : TRUE][2]
             mistyped == {i \in 1..Len(keys) \ (twice \cup absent) : value(i).t # "float"}
             First(S) == CHOOSE i \in S : \A j \in S : i <= j
         IN  IF twice # {} THEN Err(duplicate_field(keys[First(twice)]))
             ELSE IF mistyped # {} THEN Err(invalid_type(value(First(mistyped)).t))
             ELSE IF absent # {} THEN Err(missing_field(keys[First(absent)]))
             ELSE Ok(CustomPhysicalProperties(value(1).float, value(2).float, value(3).float,
                                              value(4).float, value(5).float))
    ELSE IF wire.t = "seq"
    THEN LET mistyped == {i \in 1..Len(wire.elems) :
                             i <= Len(CustomFields) /\ wire.elems[i].t # "float"}
             First(S) == CHOOSE i \in S : \A j \in S : i <= j
         IN  IF mistyped # {}
             THEN Err(invalid_type(wire.elems[First(mistyped)].t))
             ELSE IF Len(wire.elems) < Len(CustomFields)
             THEN Err(invalid_length(Len(wire.elems)))
             ELSE Ok(CustomPhysicalProperties(wire.elems[1].float, wire.elems[2].float,
                                              wire.elems[3].float, wire.elems[4].float,
                                              wire.elems[5].float))
    ELSE Err(invalid_type(wire.t))

\* derive(Deserialize) for TaggedPhysicalProperties
TaggedPhysicalProperties_deserialize(wire) ==
    IF wire.t # "variant" THEN Err(invalid_type(wire.t))
    ELSE IF wire.index = 0 THEN Ok(TaggedPhysicalProperties_Default)
    ELSE IF wire.index = 1
    THEN IF ~IsSome(wire.content) THEN Err(invalid_type("unit"))
         ELSE LET custom == CustomPhysicalProperties_deserialize(Unwrap(wire.content))
              IN  IF custom.ok THEN Ok(TaggedPhysicalProperties_Custom(custom.value)) ELSE custom
    ELSE Err(unknown_variant(wire.index))

\* Visitor::visit_str
visit_str(value) ==
    IF value = "Default" THEN Ok(PhysicalProperties_Default)
    ELSE Err(invalid_value(value))

\* Visitor::visit_map
visit_map(map) ==
    LET custom == CustomPhysicalProperties_deserialize(map)
    IN  IF custom.ok THEN Ok(PhysicalProperties_Custom(custom.value)) ELSE custom

\* Deserialize for PhysicalProperties
PhysicalProperties_deserialize(wire, human_readable) ==
    IF human_readable
    THEN IF wire.t = "str" THEN visit_str(wire.str)
         ELSE IF wire.t = "map" THEN visit_map(wire)
         ELSE Err(invalid_type(wire.t))
    ELSE LET tagged == TaggedPhysicalProperties_deserialize(wire)
         IN  IF tagged.ok
             THEN Ok(PhysicalProperties_from(tagged.value))
             ELSE tagged

PhysicalPropertiesSamples ==
    {PhysicalProperties_Default}
    \cup {PhysicalProperties_Custom(CustomPhysicalProperties(d, f, e, fw, ew)) :
            d \in {One, NaN}, f \in {Half, 0}, e \in {0, -One},
            fw \in {6 * One, Inf}, ew \in {5 * One, One}}

\* strings that are not "Default"
StringSamples == {"", "default", "Default ", "Custom", "DEFAULT", "density"}

\* wire values that are not the encoding of a value: other strings, a
\* number, a map short of its last entry, one with an entry twice and one
\* with a field name as declared, a variant index out of range, a sequence
\* short of its last element
NotEncodings ==
    LET custom == CustomPhysicalProperties(One, Half, 0, 6 * One, 5 * One)
        map == CustomPhysicalProperties_serialize(custom, TRUE)
        seq == CustomPhysicalProperties_serialize(custom, FALSE)
    IN  {StrWire(str) : str \in StringSamples}
        \cup {FloatWire(One),
              MapWire(SubSeq(map.entries, 1, 4)),
              MapWire(Append(map.entries, map.entries[1])),
              MapWire(SubSeq(map.entries, 1, 3) \o
                      <<<<"friction_weight", FloatWire(6 * One)>>, map.entries[5]>>),
              MapWire([map.entries EXCEPT ![2] = <<"friction", StrWire("Default")>>]),
              VariantWire(2, None),
              VariantWire(1, None),
              VariantWire(1, Some(TupleWire(SubSeq(seq.elems, 1, 4))))}

CallPhysicalPropertiesSerialize ==
    /\ call.op = "serialize" /\ ~call.done
    /\ Return(PhysicalProperties_serialize(call.arg.self, call.arg.human_readable))
    /\ UNCHANGED faces

CallPhysicalPropertiesDeserialize ==
    /\ call.op = "deserialize" /\ ~call.done
    /\ Return(PhysicalProperties_deserialize(call.arg.wire, call.arg.human_readable))
    /\ UNCHANGED faces

InitPhysical ==
    /\ \/ \E self \in PhysicalPropertiesSamples, human_readable \in BOOLEAN :
             call = Pending("serialize", [self |-> self, human_readable |-> human_readable])
       \/ \E self \in PhysicalPropertiesSamples, human_readable \in BOOLEAN :
             call = Pending("deserialize",
                            [wire |-> PhysicalProperties_serialize(self, human_readable),
                             human_readable |-> human_readable])
       \/ \E wire \in NotEncodings, human_readable \in BOOLEAN :
             call = Pending("deserialize", [wire |-> wire, human_readable |-> human_readable])
    /\ faces = 0

NextPhysical ==
    \/ CallPhysicalPropertiesSerialize
    \/ CallPhysicalPropertiesDeserialize

SpecPhysical == InitPhysical /\ [][NextPhysical]_vars

(***************************************************************************)
(* Claims about the encoding of PhysicalProperties                         *)
(***************************************************************************)
\* C26: a PhysicalProperties value read back from its encoding is the value
\* encoded, in the human-readable and in the compact form; in the
\* human-readable form Default is the string "Default" and a custom value
\* is the record of density, friction, elasticity, frictionWeight and
\* elasticityWeight, and a string other than "Default" is not decoded.
C26_PhysicalPropertiesRoundTrip ==
    /\ Returned("serialize") =>
          LET self == call.arg.self
              human_readable == call.arg.human_readable
          IN  /\ PhysicalProperties_deserialize(call.ret, human_readable) = Ok(self)
              /\ (human_readable /\ self = PhysicalProperties_Default) =>
                    call.ret = StrWire("Default")
              /\ (human_readable /\ self # PhysicalProperties_Default) =>
                    call.ret = MapWire(<<
                        <<"density", FloatWire(self[2].density)>>,
                        <<"friction", FloatWire(self[2].friction)>>,
                        <<"elasticity", FloatWire(self[2].elasticity)>>,
                        <<"frictionWeight", FloatWire(self[2].friction_weight)>>,
                        <<"elasticityWeight", FloatWire(self[2].elasticity_weight)>>>>)
    /\ (Returned("deserialize") /\ call.arg.human_readable /\ call.arg.wire.t = "str"
            /\ call.arg.wire.str # "Default") =>
          ~call.ret.ok

C26_Witness ==
    /\ Returned("serialize")
    /\ call.arg.human_readable
    /\ call.arg.self = PhysicalProperties_Custom(
           CustomPhysicalProperties(One, Half, 0, 6 * One, 5 * One))
    /\ PhysicalProperties_deserialize(call.ret, TRUE) = Ok(call.arg.self)

(***************************************************************************)
(* Ray                                                                     *)
(***************************************************************************)
Ray(origin, direction) == [origin |-> origin, direction |-> direction]

\* Add for Vector3
Vector3_add(self, rhs) ==
    Vector3_from_na(na_add(na_Vector3_from(self), na_Vector3_from(rhs)))

\* Mul<f32> for Vector3
Vector3_mul_scalar(self, rhs) ==
    Vector3_from_na([i \in 1..3 |-> Fmul(na_Vector3_from(self)[i], rhs)])

\* na::Vector3 - na::Vector3
na_sub(a, b) == [i \in 1..3 |-> Fadd(a[i], Fneg(b[i]))]

\* na::Vector3::dot
na_dot(a, b) == Fadd(Fadd(Fmul(a[1], b[1]), Fmul(a[2], b[2])), Fmul(a[3], b[3]))

\* Ray::closest_point
closest_point(self, point) ==
    LET t == na_dot(na_Vector3_from(self.direction),
                    na_sub(na_Vector3_from(point), na_Vector3_from(self.origin)))
    IN  IF ~IsNaN(t) /\ t < 0 THEN self.origin
        ELSE Vector3_add(self.origin, Vector3_mul_scalar(self.direction, t))

\* the Lua method ClosestPoint of Ray
Ray_ClosestPoint(this, point) == Ok(closest_point(this, point))

OriginSamples == {Vector3(0, 0, 0), Vector3(One, 0, -One)}

RaySamples == {Ray(origin, direction) : origin \in OriginSamples, direction \in PointSamples}

CallClosestPoint ==
    /\ call.op = "closest_point" /\ ~call.done
    /\ Return(closest_point(call.arg.self, call.arg.point))
    /\ UNCHANGED faces

CallLuaClosestPoint ==
    /\ call.op = "ClosestPoint" /\ ~call.done
    /\ Return(Ray_ClosestPoint(call.arg.self, call.arg.point))
    /\ UNCHANGED faces

InitRay ==
    /\ call \in {Pending(op, [self |-> ray, point |-> point]) :
                    op \in {"closest_point", "ClosestPoint"},
                    ray \in RaySamples, point \in PointSamples}
    /\ faces = 0

NextRay ==
    \/ CallClosestPoint
    \/ CallLuaClosestPoint

SpecRay == InitRay /\ [][NextRay]_vars

(***************************************************************************)
(* Claims about Ray                                                        *)
(***************************************************************************)
\* the difference of two vectors of whole numbers
Minus(a, b) == Vector3(a.x - b.x, a.y - b.y, a.z - b.z)

\* C28: closest_point returns the point of the ray nearest to the point
\* given, whatever the length of the direction: the result is
\* origin + s * direction for some s >= 0, it is the origin when the point
\* projects behind the origin, and otherwise the line from the point to the
\* result is perpendicular to the direction.
C28_ClosestPointNearest ==
    Returned("closest_point") =>
        LET origin == call.arg.self.origin
            direction == call.arg.self.direction
            point == call.arg.point
            result == call.ret
        IN  /\ Cross(Minus(result, origin), direction) = Vector3(0, 0, 0)
            /\ Dot(Minus(result, origin), direction) >= 0
            /\ Dot(direction, Minus(point, origin)) < 0 => result = origin
            /\ Dot(direction, Minus(point, origin)) >= 0 =>
                  Dot(Minus(result, point), direction) = 0

(***************************************************************************)
(* Claims about the conversion of bytes to Color3                          *)
(***************************************************************************)
\* 255 * c - byte, in units of 2^c.e, for a channel c that is not zero; the
\* product is formed in two halves of 12 bits
ScaledError(c, byte) ==
    LET high == 255 * (c.m \div Grain) - byte * 2^(-c.e - 12)
    IN  IF high \in (-256)..1 THEN high * Grain + 255 * (c.m % Grain) ELSE 2^30

\* C29: a Color3uint8 converted to Color3 and back is the Color3uint8 begun
\* with, for every byte; each channel of the Color3 is byte / 255, the
\* nearest f32 to that quotient, and lies in [0, 1].
C29_BytesRoundTrip ==
    Returned("color3_from_uint8") =>
        /\ Color3uint8_from(call.ret) = call.arg
        /\ \A ch \in ChannelNames :
              LET c == call.ret[ch]
                  byte == call.arg[ch]
              IN  /\ c.kind = "num"
                  /\ c.m >= 0 /\ ~GreaterThanOne(c)
                  /\ byte = 0 => c = Num(0, 0)
                  /\ byte = 255 => c = Num(2^23, -23)
                  /\ byte # 0 =>
                        /\ c.m \in (2^23)..(2^24)
                        /\ 2 * ScaledError(c, byte) \in (-255)..255

C29_Witness ==
    /\ Returned("color3_from_uint8")
    /\ call.arg = Color3uint8(127, 128, 254)
    /\ Color3uint8_from(call.ret) = call.arg

(***************************************************************************)
(* FontWeight and FontStyle                                                *)
(***************************************************************************)
FontWeight ==
    {"Thin", "ExtraLight", "Light", "Regular", "Medium", "SemiBold", "Bold",
     "ExtraBold", "Heavy"}

\* FontWeight::from_u16
FontWeight_from_u16(weight) ==
    CASE weight = 100 -> Some("Thin")
      [] weight = 200 -> Some("ExtraLight")
      [] weight = 300 -> Some("Light")
      [] weight = 400 -> Some("Regular")
      [] weight = 500 -> Some("Medium")
      [] weight = 600 -> Some("SemiBold")
      [] weight = 700 -> Some("Bold")
      [] weight = 800 -> Some("ExtraBold")
      [] weight = 900 -> Some("Heavy")
      [] OTHER -> None

\* mutant: Heavy has the code of ExtraBold
FontWeight_as_u16_heavy_800(self) ==
    CASE self = "Thin" -> 100
      [] self = "ExtraLight" -> 200
      [] self = "Light" -> 300
      [] self = "Regular" -> 400
      [] self = "Medium" -> 500
      [] self = "SemiBold" -> 600
      [] self = "Bold" -> 700
      [] self = "ExtraBold" -> 800
      [] self = "Heavy" -> 800

\* FontWeight::as_u16
FontWeight_as_u16(self) ==
    CASE self = "Thin" -> 100
      [] self = "ExtraLight" -> 200
      [] self = "Light" -> 300
      [] self = "Regular" -> 400
      [] self = "Medium" -> 500
      [] self = "SemiBold" -> 600
      [] self = "Bold" -> 700
      [] self = "ExtraBold" -> 800
      [] self = "Heavy" -> 900

FontStyle == {"Normal", "Italic"}

\* FontStyle::from_u8
FontStyle_from_u8(style) ==
    CASE style = 0 -> Some("Normal")
      [] style = 1 -> Some("Italic")
      [] OTHER -> None

\* FontStyle::as_u8
FontStyle_as_u8(self) ==
    CASE self = "Normal" -> 0
      [] self = "Italic" -> 1

\* the u16 values given to from_u16: those up to 1023 and the largest
WeightCodes == 0..1023 \cup {65535}

CallFontWeightFromU16 ==
    /\ call.op = "FontWeight::from_u16" /\ ~call.done
    /\ Return(FontWeight_from_u16(call.arg))
    /\ UNCHANGED faces

CallFontWeightAsU16 ==
    /\ call.op = "FontWeight::as_u16" /\ ~call.done
    /\ Return(FontWeight_as_u16(call.arg))
    /\ UNCHANGED faces

CallFontStyleFromU8 ==
    /\ call.op = "FontStyle::from_u8" /\ ~call.done
    /\ Return(FontStyle_from_u8(call.arg))
    /\ UNCHANGED faces

CallFontStyleAsU8 ==
    /\ call.op = "FontStyle::as_u8" /\ ~call.done
    /\ Return(FontStyle_as_u8(call.arg))
    /\ UNCHANGED faces

InitFont ==
    /\ \/ \E weight \in WeightCodes : call = Pending("FontWeight::from_u16", weight)
       \/ \E self \in FontWeight : call = Pending("FontWeight::as_u16", self)
       \/ \E style \in U8 : call = Pending("FontStyle::from_u8", style)
       \/ \E self \in FontStyle : call = Pending("FontStyle::as_u8", self)
    /\ faces = 0

NextFont ==
    \/ CallFontWeightFromU16
    \/ CallFontWeightAsU16
    \/ CallFontStyleFromU8
    \/ CallFontStyleAsU8

SpecFont == InitFont /\ [][NextFont]_vars

(***************************************************************************)
(* Claims about FontWeight and FontStyle                                   *)
(***************************************************************************)
\* C30: the codes of FontWeight and FontStyle correspond one to one to the
\* variants: from_u16 of the code of a weight is that weight, from_u16(n) is
\* a weight exactly for n among 100, 200, ..., 900 and the code of that
\* weight is n; from_u8 of the code of a style is that style and from_u8(n)
\* is None for every n >= 2.
C30_FontCodesBijective ==
    /\ Returned("FontWeight::as_u16") =>
          FontWeight_from_u16(call.ret) = Some(call.arg)
    /\ Returned("FontWeight::from_u16") =>
          /\ IsSome(call.ret) <=> call.arg \in {100 * k : k \in 1..9}
          /\ IsSome(call.ret) =>
                /\ Unwrap(call.ret) \in FontWeight
                /\ FontWeight_as_u16(Unwrap(call.ret)) = call.arg
    /\ Returned("FontStyle::as_u8") =>
          FontStyle_from_u8(call.ret) = Some(call.arg)
    /\ Returned("FontStyle::from_u8") =>
          /\ call.arg >= 2 => call.ret = None
          /\ call.arg < 2 => IsSome(call.ret) /\ FontStyle_as_u8(Unwrap(call.ret)) = call.arg

C30_Witness ==
    /\ Returned("FontWeight::from_u16")
    /\ call.arg = 900
    /\ call.ret = Some("Heavy")
    /\ FontWeight_as_u16("Heavy") = 900

====
